---------------------------- MODULE Spec2Model ----------------------------
(***************************************************************************)
(* Weekly aggregation engine and cross-platform campaign matching of the   *)
(* b2b-paid-tracker scripts (google_ads_to_sheets.py, meta_ads_to_sheets.py,*)
(* meta_to_sheets.py, hubspot_to_sheets.py).                               *)
(*                                                                         *)
(* Conventions of the model.                                               *)
(*  - A Python str is a sequence of character codes (ord), so that         *)
(*    startswith, len, == and the lexicographic < used by sort are the     *)
(*    operations of the code.  "" is << >>.                                *)
(*  - A date string "YYYY-MM-DD" is the triple <<y, m, d>> of the numbers  *)
(*    it spells; strptime turns it into a proleptic Gregorian ordinal (or  *)
(*    raises), strftime turns an ordinal back into the triple.             *)
(*  - Money is counted in hundredths (cents), rates in ten-thousandths;    *)
(*    round(x, 2) and round(x, 4) are round-half-even on exact quotients.  *)
(*  - A sheet cell is a record [kind, n, s]: a number n or a string s.     *)
(***************************************************************************)
EXTENDS Integers, Sequences, FiniteSets, TLC

VARIABLES
    \* prefix-containment matcher (find_matching_hubspot_campaign)
    campaign_name, hubspot_campaigns, matched_campaign, mpc,
    \* fuzzy common-prefix matcher (find_best_match)
    utm_campaign, campaigns, min_prefix_length, best_match, fpc,
    \* week arithmetic (get_week_start and the week_end line of the aggregators)
    date_str, week_start, week_end, wpc,
    \* one run of a weekly report: main() of the three *_to_sheets scripts
    platform, daily_data, weekly_data, rows, pc,
    \* the deals of hubspot_to_sheets.py main() and its two campaign catalogs
    deals, meta_campaigns, google_campaigns,
    \* which execution of a report's pipeline this is, and the rows of the first
    run, first_rows,
    \* the worksheet a report is written to, the worksheet as it was before the
    \* write, and the arguments of import_to_sheets.py write_to_sheet
    worksheet, sheet_before, data, max_col,
    \* fetch_ad_insights_daily: its arguments, its loop variable and the date
    \* ranges it has requested so far
    since, until, current_start, requested, fetch_pc

vars == <<campaign_name, hubspot_campaigns, matched_campaign, mpc,
          utm_campaign, campaigns, min_prefix_length, best_match, fpc,
          date_str, week_start, week_end, wpc,
          platform, daily_data, weekly_data, rows, pc,
          deals, meta_campaigns, google_campaigns, run, first_rows,
          worksheet, sheet_before, data, max_col,
          since, until, current_start, requested, fetch_pc>>

prefixVars == <<campaign_name, hubspot_campaigns, matched_campaign, mpc>>
fuzzyVars  == <<utm_campaign, campaigns, min_prefix_length, best_match, fpc>>
weekVars   == <<date_str, week_start, week_end, wpc>>
runVars    == <<platform, daily_data, weekly_data, rows, pc>>
dealVars   == <<deals, meta_campaigns, google_campaigns>>
rerunVars  == <<run, first_rows>>
sheetVars  == <<worksheet, sheet_before, data, max_col>>
fetchVars  == <<since, until, current_start, requested, fetch_pc>>

----------------------------------------------------------------------------
(* Bounds of the model *)

\* most daily records one run fetches
MaxRecords == 2

\* longest catalog (number of distinct campaign names) the matchers are given
MaxCatalog == 3

----------------------------------------------------------------------------
(* Strings used as inputs *)

EmptyStr == << >>
\* "Summer"
Summer == <<83,117,109,109,101,114>>
\* "Summer_Sale"
Summer_Sale == <<83,117,109,109,101,114,95,83,97,108,101>>
\* "Summer_Sale_EU"
Summer_Sale_EU == <<83,117,109,109,101,114,95,83,97,108,101,95,69,85>>
\* "Summer_Sale_IT"
Summer_Sale_IT == <<83,117,109,109,101,114,95,83,97,108,101,95,73,84>>
\* "Winter"
Winter == <<87,105,110,116,101,114>>
\* "b2b_brand_auction_2025_q1"
B2B_2025_q1 == <<98,50,98,95,98,114,97,110,100,95,97,117,99,116,105,111,110,95,50,48,50,53,95,113,49>>
\* "b2b_brand_auction_2024_q4"
B2B_2024_q4 == <<98,50,98,95,98,114,97,110,100,95,97,117,99,116,105,111,110,95,50,48,50,52,95,113,52>>
\* "completely_different"
Completely_Different == <<99,111,109,112,108,101,116,101,108,121,95,100,105,102,102,101,114,101,110,116>>
\* "short"
Short == <<115,104,111,114,116>>
\* "(No value)"
NoValue == <<40,78,111,32,118,97,108,117,101,41>>
\* "{{"
TemplateMarker == <<123,123>>
\* "{{campaign}}"
TemplateCampaign == <<123,123,99,97,109,112,97,105,103,110,125,125>>

\* all sequences without repetition of at most n elements of S: a catalog is
\* list(set(...)) of the names read from a sheet column
Range(q) == { q[i] : i \in 1..Len(q) }

RECURSIVE DistinctSeqs(_, _)
DistinctSeqs(S, n) ==
    IF n = 0 THEN { << >> }
    ELSE LET shorter == DistinctSeqs(S, n - 1)
         IN  shorter \cup
             { Append(p[1], p[2]) : p \in { r \in shorter \X S : r[2] \notin Range(r[1]) } }

----------------------------------------------------------------------------
(* Prefix-containment matcher: meta_ads_to_sheets.py 35-49 (the same code   *)
(* stands in google_ads_to_sheets.py 40-54 and meta_to_sheets.py 35-49)     *)

\* str.startswith
startswith(s, p) == Len(p) <= Len(s) /\ SubSeq(s, 1, Len(p)) = p

\* mutant: only "candidate is a prefix of the query" is tested
is_prefix_match_oneway(str1, str2) ==
    IF str1 = EmptyStr \/ str2 = EmptyStr
    THEN FALSE
    ELSE startswith(str1, str2)

\* mutant: two names match when they begin with the same character
is_prefix_match_firstchar(str1, str2) ==
    IF str1 = EmptyStr \/ str2 = EmptyStr
    THEN FALSE
    ELSE str1[1] = str2[1]

is_prefix_match(str1, str2) ==
    IF str1 = EmptyStr \/ str2 = EmptyStr
    THEN FALSE
    ELSE startswith(str1, str2) \/ startswith(str2, str1)

\* mutant: the last element of greatest length
RECURSIVE max_by_len_last(_)
max_by_len_last(matches) ==
    IF Len(matches) = 1 THEN matches[1]
    ELSE LET rest == max_by_len_last(Tail(matches))
         IN  IF Len(rest) >= Len(Head(matches)) THEN rest ELSE Head(matches)

\* max(matches, key=len): the first element of greatest length
RECURSIVE max_by_len(_)
max_by_len(matches) ==
    IF Len(matches) = 1 THEN matches[1]
    ELSE LET rest == max_by_len(Tail(matches))
         IN  IF Len(rest) > Len(Head(matches)) THEN rest ELSE Head(matches)

\* mutant: without a related candidate the campaign's own name is returned
find_matching_hubspot_campaign_fallback(name, hs_campaigns) ==
    IF name = EmptyStr
    THEN EmptyStr
    ELSE LET matches == SelectSeq(hs_campaigns, LAMBDA hs : is_prefix_match(name, hs))
         IN  IF matches = << >> THEN name ELSE max_by_len(matches)

find_matching_hubspot_campaign(name, hs_campaigns) ==
    IF name = EmptyStr
    THEN EmptyStr
    ELSE LET matches == SelectSeq(hs_campaigns, LAMBDA hs : is_prefix_match(name, hs))
         IN  IF matches = << >> THEN EmptyStr ELSE max_by_len(matches)

\* load_hubspot_campaigns keeps the non-empty names other than "(No value)"
HubspotNames == { Summer, Summer_Sale, Summer_Sale_EU, Summer_Sale_IT, Winter, B2B_2024_q4 }
PrefixQueries == { EmptyStr, Summer, Summer_Sale, Summer_Sale_EU, Winter, Short, B2B_2025_q1 }

PrefixIdle ==
    /\ campaign_name = EmptyStr
    /\ hubspot_campaigns = << >>
    /\ matched_campaign = EmptyStr
    /\ mpc = "idle"

PrefixInit ==
    /\ campaign_name \in PrefixQueries
    /\ hubspot_campaigns \in DistinctSeqs(HubspotNames, MaxCatalog)
    /\ matched_campaign = EmptyStr
    /\ mpc = "ready"

CallFindMatchingHubspotCampaign ==
    /\ mpc = "ready"
    /\ matched_campaign' = find_matching_hubspot_campaign(campaign_name, hubspot_campaigns)
    /\ mpc' = "done"
    /\ UNCHANGED <<campaign_name, hubspot_campaigns>>
    /\ UNCHANGED <<fuzzyVars, weekVars, runVars, dealVars, rerunVars, sheetVars, fetchVars>>

----------------------------------------------------------------------------
(* Fuzzy common-prefix matcher: hubspot_to_sheets.py 92-120 *)

DefaultMinPrefixLength == 10

Min(a, b) == IF a <= b THEN a ELSE b

\* the for loop of get_common_prefix_length, from index i (0-based) on
RECURSIVE prefix_scan(_, _, _, _)
prefix_scan(str1, str2, i, min_len) ==
    IF i >= min_len THEN min_len
    ELSE IF str1[i + 1] # str2[i + 1] THEN i
    ELSE prefix_scan(str1, str2, i + 1, min_len)

get_common_prefix_length(str1, str2) ==
    IF str1 = EmptyStr \/ str2 = EmptyStr
    THEN 0
    ELSE prefix_scan(str1, str2, 0, Min(Len(str1), Len(str2)))

\* the for loop of find_best_match over campaigns[i..], carrying
\* (best_match, best_prefix_len)
RECURSIVE best_scan(_, _, _, _)
best_scan(utm, cs, bm, bl) ==
    IF cs = << >> THEN [best_match |-> bm, best_prefix_len |-> bl]
    ELSE LET prefix_len == get_common_prefix_length(utm, Head(cs))
         IN  IF prefix_len > bl
             THEN best_scan(utm, Tail(cs), Head(cs), prefix_len)
             ELSE best_scan(utm, Tail(cs), bm, bl)

\* mutant: the threshold test is strict
find_best_match_strict(utm, cs, min_len) ==
    IF utm = EmptyStr \/ utm = NoValue \/ startswith(utm, TemplateMarker)
    THEN EmptyStr
    ELSE LET best == best_scan(utm, cs, EmptyStr, 0)
         IN  IF best.best_prefix_len > min_len THEN best.best_match ELSE EmptyStr

\* mutant: the sentinel guard is missing
find_best_match_noguard(utm, cs, min_len) ==
    LET best == best_scan(utm, cs, EmptyStr, 0)
    IN  IF best.best_prefix_len >= min_len THEN best.best_match ELSE EmptyStr

\* mutant: the threshold test is missing
find_best_match_nothreshold(utm, cs, min_len) ==
    IF utm = EmptyStr \/ utm = NoValue \/ startswith(utm, TemplateMarker)
    THEN EmptyStr
    ELSE best_scan(utm, cs, EmptyStr, 0).best_match

find_best_match(utm, cs, min_len) ==
    IF utm = EmptyStr \/ utm = NoValue \/ startswith(utm, TemplateMarker)
    THEN EmptyStr
    ELSE LET best == best_scan(utm, cs, EmptyStr, 0)
         IN  IF best.best_prefix_len >= min_len THEN best.best_match ELSE EmptyStr

\* load_meta_campaigns / load_google_campaigns keep every non-empty name
CampaignNames == { B2B_2024_q4, B2B_2025_q1, Completely_Different, Short,
                   NoValue, TemplateCampaign, Summer_Sale_EU, Summer_Sale_IT }
FuzzyQueries == { EmptyStr, NoValue, TemplateMarker, TemplateCampaign, Short,
                  B2B_2025_q1, Summer_Sale, Completely_Different }
MinPrefixLengths == { 5, DefaultMinPrefixLength }

FuzzyIdle ==
    /\ utm_campaign = EmptyStr
    /\ campaigns = << >>
    /\ min_prefix_length = DefaultMinPrefixLength
    /\ best_match = EmptyStr
    /\ fpc = "idle"

FuzzyInit ==
    /\ utm_campaign \in FuzzyQueries
    /\ campaigns \in DistinctSeqs(CampaignNames, MaxCatalog)
    /\ min_prefix_length \in MinPrefixLengths
    /\ best_match = EmptyStr
    /\ fpc = "ready"

CallFindBestMatch ==
    /\ fpc = "ready"
    /\ best_match' = find_best_match(utm_campaign, campaigns, min_prefix_length)
    /\ fpc' = "done"
    /\ UNCHANGED <<utm_campaign, campaigns, min_prefix_length>>
    /\ UNCHANGED <<prefixVars, weekVars, runVars, dealVars, rerunVars, sheetVars, fetchVars>>

----------------------------------------------------------------------------
(* Week arithmetic: get_week_start (meta_ads_to_sheets.py 72-76, the same   *)
(* code in google_ads_to_sheets.py 77-81 and meta_to_sheets.py 72-76) and   *)
(* the week_end line of the aggregators.                                    *)

IsLeap(y) == y % 4 = 0 /\ (y % 100 # 0 \/ y % 400 = 0)

DaysInMonth(y, m) ==
    IF m = 2 THEN (IF IsLeap(y) THEN 29 ELSE 28)
    ELSE IF m \in {4, 6, 9, 11} THEN 30 ELSE 31

\* days before the first of month m in a non-leap year
DaysBeforeMonthTable == <<0, 31, 59, 90, 120, 151, 181, 212, 243, 273, 304, 334>>

DaysBeforeMonth(y, m) ==
    DaysBeforeMonthTable[m] + (IF m > 2 /\ IsLeap(y) THEN 1 ELSE 0)

DaysBeforeYear(y) ==
    (y - 1) * 365 + ((y - 1) \div 4) - ((y - 1) \div 100) + ((y - 1) \div 400)

\* datetime.strptime(s, '%Y-%m-%d') succeeds iff s spells a calendar date
strptime_ok(s) ==
    /\ Len(s) = 3
    /\ s[1] \in 1..9999
    /\ s[2] \in 1..12
    /\ s[3] \in 1..DaysInMonth(s[1], s[2])

\* the datetime as the ordinal of its day (day 1 is 0001-01-01)
strptime(s) == DaysBeforeYear(s[1]) + DaysBeforeMonth(s[1], s[2]) + s[3]

\* datetime.strftime('%Y-%m-%d'): the date of an ordinal
strftime(ordinal) ==
    LET n0   == ordinal - 1
        n400 == n0 \div 146097
        r400 == n0 % 146097
        n100 == r400 \div 36524
        r100 == r400 % 36524
        n4   == r100 \div 1461
        r4   == r100 % 1461
        n1   == r4 \div 365
        n    == r4 % 365
        year == n400 * 400 + 1 + n100 * 100 + n4 * 4 + n1
    IN  IF n1 = 4 \/ n100 = 4
        THEN << year - 1, 12, 31 >>
        ELSE LET leap  == n1 = 3 /\ (n4 # 24 \/ n100 = 3)
                 guess == (n + 50) \div 32
                 prec  == DaysBeforeMonthTable[guess]
                            + (IF guess > 2 /\ leap THEN 1 ELSE 0)
                 month == IF prec > n THEN guess - 1 ELSE guess
                 before == DaysBeforeMonthTable[month]
                            + (IF month > 2 /\ leap THEN 1 ELSE 0)
             IN  << year, month, n - before + 1 >>

\* datetime.weekday(): Monday is 0
weekday(ordinal) == (ordinal + 6) % 7

\* mutant: isoweekday() (Monday is 1) in the place of weekday()
get_week_start_iso(s) ==
    strftime(strptime(s) - (weekday(strptime(s)) + 1))

get_week_start(s) ==
    strftime(strptime(s) - weekday(strptime(s)))

\* mutant: the week ends seven days after its start
week_end_of_plus7(ws) == strftime(strptime(ws) + 7)

\* (datetime.strptime(week_start, '%Y-%m-%d') + timedelta(days=6)).strftime(...)
week_end_of(ws) == strftime(strptime(ws) + 6)

\* number of calendar years the week arithmetic is exercised on
NumYears == 3

Years == 2024..(2024 + NumYears - 1)

CalendarDates ==
    { d \in Years \X (1..12) \X (1..31) : d[3] <= DaysInMonth(d[1], d[2]) }

WeekInit ==
    /\ date_str \in CalendarDates
    /\ week_start = << >>
    /\ week_end = << >>
    /\ wpc = "ready"

\* lines 190-191 of aggregate_ads_daily_to_weekly for one record's date
ComputeWeek ==
    /\ wpc = "ready"
    /\ strptime_ok(date_str)
    /\ week_start' = get_week_start(date_str)
    /\ week_end' = week_end_of(get_week_start(date_str))
    /\ wpc' = "done"
    /\ UNCHANGED date_str
    /\ UNCHANGED <<prefixVars, fuzzyVars, runVars, dealVars, rerunVars, sheetVars, fetchVars>>

WeekIdle ==
    /\ date_str = << >>
    /\ week_start = << >>
    /\ week_end = << >>
    /\ wpc = "idle"

----------------------------------------------------------------------------
(* Cells, rounding and sorting shared by the three row builders *)

\* "EUR"
EUR == <<69,85,82>>
\* "USD"
USD == <<85,83,68>>

Num(n) == [kind |-> "num", n |-> n, s |-> EmptyStr]
Str(s) == [kind |-> "str", n |-> 0, s |-> s]
\* the empty cell ""
Empty  == Str(EmptyStr)

\* round(num / den, k) as a whole number of 10^-k units, num already scaled
\* by 10^k: round half to even, den > 0
RoundHalfEven(num, den) ==
    LET q == num \div den
        r == num % den
    IN  IF 2 * r < den THEN q
        ELSE IF 2 * r > den THEN q + 1
        ELSE IF q % 2 = 0 THEN q ELSE q + 1

\* f"{item['week_start']} - {item['week_end']}"
WeekLabel(ws, we) == ws \o <<32, 45, 32>> \o we

\* str < str
RECURSIVE StrLess(_, _)
StrLess(a, b) ==
    IF b = << >> THEN FALSE
    ELSE IF a = << >> THEN TRUE
    ELSE IF Head(a) # Head(b) THEN Head(a) < Head(b)
    ELSE StrLess(Tail(a), Tail(b))

\* tuple of str < tuple of str
RECURSIVE KeyLess(_, _)
KeyLess(k1, k2) ==
    IF k1 = << >> \/ k2 = << >> THEN FALSE
    ELSE IF Head(k1) # Head(k2) THEN StrLess(Head(k1), Head(k2))
    ELSE KeyLess(Tail(k1), Tail(k2))

\* list.sort(key=...): stable, ascending; keyed is the list of
\* [key, row] pairs of the rows to sort
RECURSIVE InsertByKey(_, _)
InsertByKey(sorted, e) ==
    IF sorted = << >> THEN << e >>
    ELSE IF KeyLess(e.key, Head(sorted).key)
         THEN << e >> \o sorted
         ELSE << Head(sorted) >> \o InsertByKey(Tail(sorted), e)

RECURSIVE SortKeyed(_)
SortKeyed(keyed) ==
    IF keyed = << >> THEN << >>
    ELSE InsertByKey(SortKeyed(SubSeq(keyed, 1, Len(keyed) - 1)), keyed[Len(keyed)])

\* rows.sort(key=...), keys[i] the key of rs[i]
SortByKey(rs, keys) ==
    LET keyed  == [i \in 1..Len(rs) |-> [key |-> keys[i], row |-> rs[i]]]
        sorted == SortKeyed(keyed)
    IN  [i \in 1..Len(rs) |-> sorted[i].row]

\* the key (entity, week_start) under which the dict holds a bucket: the ad
\* id in the ad-level report, the campaign name in the other two
BucketKey(plat, b) ==
    << IF plat = "meta_ads" THEN b.ad_id ELSE b.campaign_name, b.week_start >>

\* index of the bucket of a key in the insertion-ordered dict, 0 if absent
BucketIndex(plat, weekly, key) ==
    IF \E i \in 1..Len(weekly) : BucketKey(plat, weekly[i]) = key
    THEN CHOOSE i \in 1..Len(weekly) : BucketKey(plat, weekly[i]) = key
    ELSE 0

\* the dates a record can carry: Monday and Sunday of one week, the Monday
\* of the next (the first entity of a report on each, the others on the first)
RecordDates == { <<2025, 7, 7>>, <<2025, 7, 13>>, <<2025, 7, 14>> }
\* "2025-02-30": no calendar date
BadDate == <<2025, 2, 30>>

\* the catalogs load_hubspot_campaigns may return to a run
RunCatalogs == { << >>, << Summer_Sale_EU, Summer >>, << Winter >> }

----------------------------------------------------------------------------
(* Google Ads weekly report: google_ads_to_sheets.py 155-268 *)

\* item.get("search_impression_share") is None: the record has no such value
NoShare == -1

GoogleProfiles == {
    [cost_micros |-> 0, impressions |-> 0, clicks |-> 0,
     search_impression_share |-> 0, search_click_share |-> NoShare, currency_code |-> EUR],
    [cost_micros |-> 2500000, impressions |-> 100, clicks |-> 0,
     search_impression_share |-> 5000, search_click_share |-> 0, currency_code |-> EUR],
    [cost_micros |-> 1000000, impressions |-> 7, clicks |-> 3,
     search_impression_share |-> 2501, search_click_share |-> 3000, currency_code |-> USD] }

GoogleRecord(d, c, p) ==
    [date |-> d, campaign_name |-> c, currency_code |-> p.currency_code,
     cost_micros |-> p.cost_micros, impressions |-> p.impressions, clicks |-> p.clicks,
     search_impression_share |-> p.search_impression_share,
     search_click_share |-> p.search_click_share]

\* shares are fractions counted in ten-thousandths
GoogleRecords ==
    { GoogleRecord(d, Summer, p) : d \in RecordDates, p \in GoogleProfiles }
    \cup { GoogleRecord(<<2025, 7, 7>>, Winter, p) : p \in GoogleProfiles }
    \cup { GoogleRecord(d, Summer, p) :
             d \in { EmptyStr, BadDate },
             p \in { q \in GoogleProfiles : q.clicks > 0 } }

GoogleDefault ==
    [campaign_name |-> EmptyStr, currency_code |-> EUR, cost_micros |-> 0,
     impressions |-> 0, clicks |-> 0,
     search_impression_share_sum |-> 0, search_impression_share_count |-> 0,
     search_click_share_sum |-> 0, search_click_share_count |-> 0,
     week_start |-> EmptyStr, week_end |-> EmptyStr]

\* mutant: impressions are assigned, not added
GoogleFold_assign(weekly, item) ==
    LET ws  == get_week_start(item.date)
        at  == BucketIndex("google", weekly, << item.campaign_name, ws >>)
        old == IF at = 0 THEN GoogleDefault ELSE weekly[at]
        new == [old EXCEPT
                  !.campaign_name = item.campaign_name,
                  !.currency_code = item.currency_code,
                  !.cost_micros = @ + item.cost_micros,
                  !.impressions = item.impressions,
                  !.clicks = @ + item.clicks,
                  !.week_start = ws,
                  !.week_end = week_end_of(ws)]
    IN  IF at = 0 THEN Append(weekly, new) ELSE [weekly EXCEPT ![at] = new]

\* mutant: every record with a share value counts in the divisor of the average
GoogleFold_countall(weekly, item) ==
    LET ws  == get_week_start(item.date)
        at  == BucketIndex("google", weekly, << item.campaign_name, ws >>)
        old == IF at = 0 THEN GoogleDefault ELSE weekly[at]
        sis == item.search_impression_share
        scs == item.search_click_share
        new == [old EXCEPT
                  !.campaign_name = item.campaign_name,
                  !.currency_code = item.currency_code,
                  !.cost_micros = @ + item.cost_micros,
                  !.impressions = @ + item.impressions,
                  !.clicks = @ + item.clicks,
                  !.week_start = ws,
                  !.week_end = week_end_of(ws),
                  !.search_impression_share_sum = IF sis # NoShare THEN @ + sis ELSE @,
                  !.search_impression_share_count = IF sis # NoShare THEN @ + 1 ELSE @,
                  !.search_click_share_sum = IF scs # NoShare THEN @ + scs ELSE @,
                  !.search_click_share_count = IF scs # NoShare THEN @ + 1 ELSE @]
    IN  IF at = 0 THEN Append(weekly, new) ELSE [weekly EXCEPT ![at] = new]

\* the loop body of aggregate_daily_to_weekly for one item with a parseable date
GoogleFold(weekly, item) ==
    LET ws  == get_week_start(item.date)
        we  == week_end_of(ws)
        at  == BucketIndex("google", weekly, << item.campaign_name, ws >>)
        idx == IF at = 0 THEN Len(weekly) + 1 ELSE at
        old == IF at = 0 THEN GoogleDefault ELSE weekly[at]
        sis == item.search_impression_share
        scs == item.search_click_share
        new == [old EXCEPT
                  !.campaign_name = item.campaign_name,
                  !.currency_code = item.currency_code,
                  !.cost_micros = @ + item.cost_micros,
                  !.impressions = @ + item.impressions,
                  !.clicks = @ + item.clicks,
                  !.week_start = ws,
                  !.week_end = we,
                  !.search_impression_share_sum =
                      IF sis # NoShare /\ sis > 0 THEN @ + sis ELSE @,
                  !.search_impression_share_count =
                      IF sis # NoShare /\ sis > 0 THEN @ + 1 ELSE @,
                  !.search_click_share_sum =
                      IF scs # NoShare /\ scs > 0 THEN @ + scs ELSE @,
                  !.search_click_share_count =
                      IF scs # NoShare /\ scs > 0 THEN @ + 1 ELSE @]
    IN  IF at = 0 THEN Append(weekly, new) ELSE [weekly EXCEPT ![idx] = new]

\* mutant: the Avg. CPC cell is round(cpc, 2) without the clicks > 0 test
GoogleCpcCell_unguarded(cost_micros, clicks) ==
    Num(IF clicks > 0 THEN RoundHalfEven(cost_micros, 10000 * clicks) ELSE 0)

\* round(cpc, 2) if clicks > 0 else "", cpc = cost / clicks if clicks > 0 else 0
GoogleCpcCell(cost_micros, clicks) ==
    IF clicks > 0 THEN Num(RoundHalfEven(cost_micros, 10000 * clicks)) ELSE Empty

\* one row of process_weekly_data, for a bucket with impressions # 0
GoogleRow(item, hs_campaigns) ==
    LET impressions == item.impressions
        clicks == item.clicks
        cost_micros == item.cost_micros
        sis_count == item.search_impression_share_count
        scs_count == item.search_click_share_count
    IN  << Str(WeekLabel(item.week_start, item.week_end)),
           Str(item.campaign_name),
           Str(item.currency_code),
           Num(RoundHalfEven(cost_micros, 10000)),
           Num(impressions),
           Num(IF impressions > 0 THEN RoundHalfEven(cost_micros, 10 * impressions) ELSE 0),
           Num(clicks),
           Num(IF impressions > 0 THEN RoundHalfEven(clicks * 10000, impressions) ELSE 0),
           GoogleCpcCell(cost_micros, clicks),
           IF sis_count > 0 /\ item.search_impression_share_sum > 0
              THEN Num(RoundHalfEven(item.search_impression_share_sum, sis_count)) ELSE Empty,
           IF scs_count > 0 /\ item.search_click_share_sum > 0
              THEN Num(RoundHalfEven(item.search_click_share_sum, scs_count)) ELSE Empty,
           Str(find_matching_hubspot_campaign(item.campaign_name, hs_campaigns)) >>

GoogleHeaders ==
    << "Week", "Campaign", "Currency code", "Cost", "Impr.", "Avg. CPM", "Clicks",
       "CTR", "Avg. CPC", "Search impr. share", "Click share",
       "Matched HubSpot Campaign" >>

\* mutant: the campaign comes before the week in the key
GoogleSortKey_campaignfirst(row) == << row[2].s, row[1].s >>

\* key=lambda x: (x[0] or "", x[1] or ""): week, then campaign
GoogleSortKey(row) == << row[1].s, row[2].s >>

----------------------------------------------------------------------------
(* Meta ad-level weekly report: meta_ads_to_sheets.py 162-342 *)

\* "ad1"
Ad1 == <<97,100,49>>
\* "ad2"
Ad2 == <<97,100,50>>
\* "AdA"
AdA == <<65,100,65>>
\* "AdB"
AdB == <<65,100,66>>
\* "Lead"
LeadLabel == <<76,101,97,100>>
\* "https://www.facebook.com/ads/manager/preview/"
PreviewPrefix == <<104,116,116,112,115,58,47,47,119,119,119,46,102,97,99,101,98,111,111,107,46,99,111,109,47,97,100,115,47,109,97,110,97,103,101,114,47,112,114,101,118,105,101,119,47>>

Action(type, value) == [action_type |-> type, value |-> value]

\* spend is counted in cents
MetaAdsProfiles == {
    [impressions |-> 0, reach |-> 0, spend |-> 0,
     actions |-> << Action("lead", 1) >>,
     outbound_clicks |-> << >>, video_p25_watched_actions |-> << >>,
     video_p50_watched_actions |-> << >>, video_p75_watched_actions |-> << >>],
    [impressions |-> 100, reach |-> 0, spend |-> 0,
     actions |-> << Action("link_click", 4) >>,
     outbound_clicks |-> << >>, video_p25_watched_actions |-> << >>,
     video_p50_watched_actions |-> << >>, video_p75_watched_actions |-> << >>],
    [impressions |-> 300, reach |-> 200, spend |-> 999,
     actions |-> << Action("lead", 2), Action("landing_page_view", 8),
                    Action("post_engagement", 30) >>,
     outbound_clicks |-> << Action("outbound_click", 5) >>,
     video_p25_watched_actions |-> << Action("video_view", 40) >>,
     video_p50_watched_actions |-> << Action("video_view", 20) >>,
     video_p75_watched_actions |-> << Action("video_view", 10) >>] }

\* two ads of one campaign that share a name, and an ad id whose names changed
MetaAdsEntities == {
    [ad_id |-> Ad1, ad_name |-> AdA, campaign_name |-> Summer],
    [ad_id |-> Ad2, ad_name |-> AdA, campaign_name |-> Summer],
    [ad_id |-> Ad1, ad_name |-> AdB, campaign_name |-> Winter] }

MetaAdsRecord(d, e, p) ==
    [date_start |-> d, campaign_name |-> e.campaign_name, ad_id |-> e.ad_id,
     ad_name |-> e.ad_name, impressions |-> p.impressions, reach |-> p.reach,
     spend |-> p.spend, actions |-> p.actions, outbound_clicks |-> p.outbound_clicks,
     video_p25_watched_actions |-> p.video_p25_watched_actions,
     video_p50_watched_actions |-> p.video_p50_watched_actions,
     video_p75_watched_actions |-> p.video_p75_watched_actions]

MetaAdsRecords ==
    { MetaAdsRecord(d, e, p) :
        d \in RecordDates,
        e \in { x \in MetaAdsEntities : x.ad_id = Ad1 /\ x.ad_name = AdA },
        p \in MetaAdsProfiles }
    \cup { MetaAdsRecord(<<2025, 7, 7>>, e, p) : e \in MetaAdsEntities, p \in MetaAdsProfiles }
    \cup { MetaAdsRecord(d, e, p) :
             d \in { EmptyStr, BadDate },
             e \in { x \in MetaAdsEntities : x.ad_id = Ad1 /\ x.ad_name = AdA },
             p \in { q \in MetaAdsProfiles : q.reach > 0 } }

MetaAdsDefault ==
    [campaign_name |-> EmptyStr, ad_id |-> EmptyStr, ad_name |-> EmptyStr,
     impressions |-> 0, reach |-> 0, spend |-> 0, leads |-> 0,
     landing_page_views |-> 0, engagement |-> 0, outbound_clicks |-> 0,
     video_p25 |-> 0, video_p50 |-> 0, video_p75 |-> 0,
     week_start |-> EmptyStr, week_end |-> EmptyStr]

\* for action in item["actions"]: the if/elif chain on action_type
RECURSIVE MetaAdsActions(_, _)
MetaAdsActions(bucket, actions) ==
    IF actions = << >> THEN bucket
    ELSE LET action_type == Head(actions).action_type
             value == Head(actions).value
             next == IF action_type = "lead"
                        THEN [bucket EXCEPT !.leads = @ + value]
                     ELSE IF action_type = "landing_page_view"
                        THEN [bucket EXCEPT !.landing_page_views = @ + value]
                     ELSE IF action_type = "post_engagement"
                        THEN [bucket EXCEPT !.engagement = @ + value]
                     ELSE bucket
         IN  MetaAdsActions(next, Tail(actions))

\* for x in item[...]: acc += float(x.get("value", 0))
RECURSIVE ValueTotal(_)
ValueTotal(entries) ==
    IF entries = << >> THEN 0 ELSE Head(entries).value + ValueTotal(Tail(entries))

\* the loop body of aggregate_ads_daily_to_weekly for one item with a
\* parseable date
MetaAdsFold(weekly, item) ==
    LET ws  == get_week_start(item.date_start)
        we  == week_end_of(ws)
        at  == BucketIndex("meta_ads", weekly, << item.ad_id, ws >>)
        old == IF at = 0 THEN MetaAdsDefault ELSE weekly[at]
        set == [old EXCEPT
                  !.campaign_name = item.campaign_name,
                  !.ad_id = item.ad_id,
                  !.ad_name = item.ad_name,
                  !.impressions = @ + item.impressions,
                  !.reach = @ + item.reach,
                  !.spend = @ + item.spend,
                  !.week_start = ws,
                  !.week_end = we]
        act == MetaAdsActions(set, item.actions)
        new == [act EXCEPT
                  !.outbound_clicks = @ + ValueTotal(item.outbound_clicks),
                  !.video_p25 = @ + ValueTotal(item.video_p25_watched_actions),
                  !.video_p50 = @ + ValueTotal(item.video_p50_watched_actions),
                  !.video_p75 = @ + ValueTotal(item.video_p75_watched_actions)]
    IN  IF at = 0 THEN Append(weekly, new) ELSE [weekly EXCEPT ![at] = new]

\* one row of process_weekly_ad_data, for a bucket with impressions # 0
MetaAdsRow(item, hs_campaigns) ==
    LET impressions == item.impressions
        reach == item.reach
        spend == item.spend
        leads == item.leads
        landing_page_views == item.landing_page_views
        engagement == item.engagement
        outbound_clicks == item.outbound_clicks
        video_p25 == item.video_p25
        video_p50 == item.video_p50
        video_p75 == item.video_p75
        \* cost_per_lead > 0, outbound_ctr > 0, cost_per_outbound_click > 0
        cost_per_lead_pos == leads > 0 /\ spend > 0
        outbound_ctr_pos == impressions > 0 /\ outbound_clicks > 0
        cost_per_click_pos == outbound_clicks > 0 /\ spend > 0
    IN  << Str(item.campaign_name),
           Str(WeekLabel(item.week_start, item.week_end)),
           Str(item.ad_name),
           Num(impressions),
           Num(reach),
           Num(IF reach > 0 THEN RoundHalfEven(impressions * 100, reach) ELSE 0),
           Num(spend),
           IF leads > 0 THEN Str(LeadLabel) ELSE Empty,
           IF leads > 0 THEN Num(leads) ELSE Empty,
           IF cost_per_lead_pos THEN Num(RoundHalfEven(spend, leads)) ELSE Empty,
           Num(IF landing_page_views > 0
               THEN RoundHalfEven(leads * 10000, landing_page_views) ELSE 0),
           Num(IF impressions > 0 THEN RoundHalfEven(spend * 1000, impressions) ELSE 0),
           IF outbound_clicks > 0 THEN Num(outbound_clicks) ELSE Empty,
           IF outbound_ctr_pos
              THEN Num(RoundHalfEven(outbound_clicks * 10000, impressions)) ELSE Empty,
           IF cost_per_click_pos THEN Num(RoundHalfEven(spend, outbound_clicks)) ELSE Empty,
           Num(IF impressions > 0 THEN RoundHalfEven(engagement * 10000, impressions) ELSE 0),
           Num(IF impressions > 0 THEN RoundHalfEven(video_p25 * 10000, impressions) ELSE 0),
           IF video_p25 > 0 THEN Num(RoundHalfEven(video_p50 * 10000, video_p25)) ELSE Empty,
           IF video_p25 > 0
              THEN Num(RoundHalfEven((video_p25 - video_p75) * 10000, video_p25)) ELSE Empty,
           IF landing_page_views > 0 THEN Num(landing_page_views) ELSE Empty,
           IF leads > 0 THEN Num(leads) ELSE Empty,
           IF cost_per_lead_pos THEN Num(RoundHalfEven(spend, leads)) ELSE Empty,
           IF item.ad_id # EmptyStr THEN Str(PreviewPrefix \o item.ad_id) ELSE Empty,
           Str(item.week_start),
           Str(item.week_end),
           Str(find_matching_hubspot_campaign(item.campaign_name, hs_campaigns)) >>

MetaAdsHeaders ==
    << "Campaign name", "Week", "Ad name", "Impressions", "Reach", "Frequency",
       "Amount spent (EUR)", "Result type", "Results", "Cost per result", "CR",
       "CPM (cost per 1,000 impressions)", "Outbound clicks",
       "Outbound CTR (click-through rate)", "Cost per outbound click", "ER",
       "Hook Rate", "Hold Rate", "Traffic Loss Rate", "Website landing page views",
       "Leads", "Cost per Lead (EUR)", "Preview link", "Reporting starts",
       "Reporting ends", "Matched HubSpot Campaign" >>

MetaAdsSortKey(row) == << row[1].s, row[3].s, row[2].s >>

----------------------------------------------------------------------------
(* Meta campaign-level weekly report: meta_to_sheets.py 114-233 *)

\* "c1"
Cid1 == <<99,49>>
\* "c2"
Cid2 == <<99,50>>

MetaProfiles == {
    [impressions |-> 0, reach |-> 0, spend |-> 0, account_currency |-> EUR,
     actions |-> << Action("lead", 1) >>,
     cost_per_action_type |-> << >>],
    [impressions |-> 100, reach |-> 0, spend |-> 0, account_currency |-> EUR,
     actions |-> << Action("link_click", 4), Action("video_view", 10) >>,
     cost_per_action_type |-> << Action("link_click", 25), Action("lead", 500) >>],
    [impressions |-> 300, reach |-> 200, spend |-> 999, account_currency |-> USD,
     actions |-> << Action("lead", 2), Action("landing_page_view", 8),
                    Action("post_engagement", 30), Action("video_view", 25) >>,
     cost_per_action_type |-> << Action("lead", 500) >>] }

MetaEntities == {
    [campaign_id |-> Cid1, campaign_name |-> Summer],
    [campaign_id |-> Cid2, campaign_name |-> Winter] }

MetaRecord(d, e, p) ==
    [date_start |-> d, campaign_id |-> e.campaign_id, campaign_name |-> e.campaign_name,
     impressions |-> p.impressions, reach |-> p.reach, spend |-> p.spend,
     account_currency |-> p.account_currency, actions |-> p.actions,
     cost_per_action_type |-> p.cost_per_action_type]

MetaRecords ==
    { MetaRecord(d, e, p) :
        d \in RecordDates,
        e \in { x \in MetaEntities : x.campaign_id = Cid1 },
        p \in MetaProfiles }
    \cup { MetaRecord(<<2025, 7, 7>>, e, p) : e \in MetaEntities, p \in MetaProfiles }
    \cup { MetaRecord(d, e, p) :
             d \in { EmptyStr, BadDate },
             e \in { x \in MetaEntities : x.campaign_id = Cid1 },
             p \in { q \in MetaProfiles : q.reach > 0 } }

MetaDefault ==
    [campaign_id |-> EmptyStr, campaign_name |-> EmptyStr, impressions |-> 0,
     reach |-> 0, spend |-> 0, account_currency |-> EUR, leads |-> 0,
     landing_page_views |-> 0, engagement |-> 0, video_views |-> 0,
     cost_per_lead_total |-> 0, lead_count_for_cpl |-> 0,
     week_start |-> EmptyStr, week_end |-> EmptyStr]

\* for action in item["actions"]: the if/elif chain on action_type
RECURSIVE MetaActions(_, _)
MetaActions(bucket, actions) ==
    IF actions = << >> THEN bucket
    ELSE LET action_type == Head(actions).action_type
             value == Head(actions).value
             next == IF action_type = "lead"
                        THEN [bucket EXCEPT !.leads = @ + value]
                     ELSE IF action_type = "landing_page_view"
                        THEN [bucket EXCEPT !.landing_page_views = @ + value]
                     ELSE IF action_type = "post_engagement"
                        THEN [bucket EXCEPT !.engagement = @ + value]
                     ELSE IF action_type = "video_view"
                        THEN [bucket EXCEPT !.video_views = @ + value]
                     ELSE bucket
         IN  MetaActions(next, Tail(actions))

\* for cost in item["cost_per_action_type"]: the "lead" entries, each
\* weighted by the value of the item's first action (1 without actions)
RECURSIVE MetaCosts(_, _, _)
MetaCosts(bucket, costs, item) ==
    IF costs = << >> THEN bucket
    ELSE LET weight == IF item.actions # << >> THEN item.actions[1].value ELSE 1
             next == IF Head(costs).action_type = "lead"
                     THEN [bucket EXCEPT
                             !.cost_per_lead_total = @ + Head(costs).value * weight,
                             !.lead_count_for_cpl = @ + 1]
                     ELSE bucket
         IN  MetaCosts(next, Tail(costs), item)

\* the loop body of aggregate_daily_to_weekly for one item with a parseable date
MetaFold(weekly, item) ==
    LET ws  == get_week_start(item.date_start)
        we  == week_end_of(ws)
        at  == BucketIndex("meta", weekly, << item.campaign_name, ws >>)
        old == IF at = 0 THEN MetaDefault ELSE weekly[at]
        set == [old EXCEPT
                  !.campaign_id = item.campaign_id,
                  !.campaign_name = item.campaign_name,
                  !.impressions = @ + item.impressions,
                  !.reach = @ + item.reach,
                  !.spend = @ + item.spend,
                  !.account_currency = item.account_currency,
                  !.week_start = ws,
                  !.week_end = we]
        new == MetaCosts(MetaActions(set, item.actions), item.cost_per_action_type, item)
    IN  IF at = 0 THEN Append(weekly, new) ELSE [weekly EXCEPT ![at] = new]

\* one row of process_weekly_data, for a bucket with impressions # 0
MetaRow(item, hs_campaigns) ==
    LET impressions == item.impressions
        reach == item.reach
        spend == item.spend
        leads == item.leads
        landing_page_views == item.landing_page_views
        engagement == item.engagement
        video_views == item.video_views
    IN  << Str(item.campaign_name),
           Str(WeekLabel(item.week_start, item.week_end)),
           Num(impressions),
           Num(reach),
           Num(IF reach > 0 THEN RoundHalfEven(impressions * 100, reach) ELSE 0),
           Str(item.account_currency),
           Num(spend),
           Num(IF impressions > 0 THEN RoundHalfEven(spend * 1000, impressions) ELSE 0),
           Num(IF impressions > 0 THEN RoundHalfEven(engagement * 10000, impressions) ELSE 0),
           Num(IF impressions > 0 THEN RoundHalfEven(video_views * 10000, impressions) ELSE 0),
           Num(landing_page_views),
           IF leads > 0 THEN Num(leads) ELSE Empty,
           IF leads > 0 /\ spend > 0 THEN Num(RoundHalfEven(spend, leads)) ELSE Empty,
           Str(item.week_start),
           Str(item.week_end),
           Str(find_matching_hubspot_campaign(item.campaign_name, hs_campaigns)) >>

MetaHeaders ==
    << "Campaign name", "Week", "Impressions", "Reach", "Frequency", "Currency",
       "Amount spent (EUR)", "CPM", "ER", "Hook Rate", "Landing Page Views",
       "Leads", "Cost per Lead (EUR)", "Reporting starts", "Reporting ends",
       "Matched HubSpot Campaign" >>

MetaSortKey(row) == << row[1].s, row[2].s >>

----------------------------------------------------------------------------
(* The run of a report: aggregate, then build the rows *)

DateOf(plat, item) ==
    IF plat = "google" THEN item.date ELSE item.date_start

Fold(plat, weekly, item) ==
    IF plat = "google" THEN GoogleFold(weekly, item)
    ELSE IF plat = "meta_ads" THEN MetaAdsFold(weekly, item)
    ELSE MetaFold(weekly, item)

\* the for loop of an aggregate function: an item without a date is skipped,
\* strptime raises on a date it cannot parse
RECURSIVE AggregateLoop(_, _, _)
AggregateLoop(plat, daily, weekly) ==
    IF daily = << >> THEN [raised |-> FALSE, weekly |-> weekly]
    ELSE LET item == Head(daily)
         IN  IF DateOf(plat, item) = EmptyStr
             THEN AggregateLoop(plat, Tail(daily), weekly)
             ELSE IF ~ strptime_ok(DateOf(plat, item))
             THEN [raised |-> TRUE, weekly |-> << >>]
             ELSE AggregateLoop(plat, Tail(daily), Fold(plat, weekly, item))

\* mutant: the first record is read before the loop
google_aggregate_daily_to_weekly_peek(daily) ==
    IF daily = << >> THEN [raised |-> TRUE, weekly |-> << >>]
    ELSE AggregateLoop("google", daily, << >>)

google_aggregate_daily_to_weekly(daily) == AggregateLoop("google", daily, << >>)

aggregate_ads_daily_to_weekly(daily) == AggregateLoop("meta_ads", daily, << >>)

meta_aggregate_daily_to_weekly(daily) == AggregateLoop("meta", daily, << >>)

Row(plat, item, hs_campaigns) ==
    IF plat = "google" THEN GoogleRow(item, hs_campaigns)
    ELSE IF plat = "meta_ads" THEN MetaAdsRow(item, hs_campaigns)
    ELSE MetaRow(item, hs_campaigns)

\* mutant: the "no impressions" filter is missing
BuildRows_nofilter(plat, weekly, hs_campaigns) ==
    [i \in 1..Len(weekly) |-> Row(plat, weekly[i], hs_campaigns)]

\* mutant: a matched campaign is taken out of the catalog the later rows see
RECURSIVE BuildRows_consuming(_, _, _)
BuildRows_consuming(plat, weekly, hs_campaigns) ==
    IF weekly = << >> THEN << >>
    ELSE IF Head(weekly).impressions = 0
         THEN BuildRows_consuming(plat, Tail(weekly), hs_campaigns)
         ELSE LET matched == find_matching_hubspot_campaign(Head(weekly).campaign_name,
                                                            hs_campaigns)
              IN  << Row(plat, Head(weekly), hs_campaigns) >>
                     \o BuildRows_consuming(plat, Tail(weekly),
                            SelectSeq(hs_campaigns, LAMBDA c : c # matched))

\* the for loop of a row builder: the rows of the buckets with impressions,
\* in bucket order
RECURSIVE BuildRows(_, _, _)
BuildRows(plat, weekly, hs_campaigns) ==
    IF weekly = << >> THEN << >>
    ELSE IF Head(weekly).impressions = 0
         THEN BuildRows(plat, Tail(weekly), hs_campaigns)
         ELSE << Row(plat, Head(weekly), hs_campaigns) >>
                \o BuildRows(plat, Tail(weekly), hs_campaigns)

google_process_weekly_data(weekly, hs_campaigns) ==
    LET built == BuildRows("google", weekly, hs_campaigns)
    IN  SortByKey(built, [i \in 1..Len(built) |-> GoogleSortKey(built[i])])

process_weekly_ad_data(weekly, hs_campaigns) ==
    LET built == BuildRows("meta_ads", weekly, hs_campaigns)
    IN  SortByKey(built, [i \in 1..Len(built) |-> MetaAdsSortKey(built[i])])

meta_process_weekly_data(weekly, hs_campaigns) ==
    LET built == BuildRows("meta", weekly, hs_campaigns)
    IN  SortByKey(built, [i \in 1..Len(built) |-> MetaSortKey(built[i])])

RECURSIVE SeqsUpTo(_, _)
SeqsUpTo(S, n) ==
    IF n = 0 THEN { << >> }
    ELSE LET shorter == SeqsUpTo(S, n - 1)
         IN  shorter \cup { Append(q, x) : q \in shorter, x \in S }

RunIdle ==
    /\ platform = "none"
    /\ daily_data = << >>
    /\ weekly_data = << >>
    /\ rows = << >>
    /\ pc = "idle"

GoogleInit ==
    /\ platform = "google"
    /\ daily_data \in SeqsUpTo(GoogleRecords, MaxRecords)
    /\ weekly_data = << >>
    /\ rows = << >>
    /\ pc = "fetched"

MetaAdsInit ==
    /\ platform = "meta_ads"
    /\ daily_data \in SeqsUpTo(MetaAdsRecords, MaxRecords)
    /\ weekly_data = << >>
    /\ rows = << >>
    /\ pc = "fetched"

MetaInit ==
    /\ platform = "meta"
    /\ daily_data \in SeqsUpTo(MetaRecords, MaxRecords)
    /\ weekly_data = << >>
    /\ rows = << >>
    /\ pc = "fetched"

\* mutant: the bucket mapping outlives the call and is filled again
AggregateGoogle_shared ==
    /\ platform = "google"
    /\ pc = "fetched"
    /\ LET out == AggregateLoop("google", daily_data, weekly_data)
       IN  /\ weekly_data' = out.weekly
           /\ pc' = IF out.raised THEN "raised" ELSE "aggregated"
    /\ UNCHANGED <<platform, daily_data, rows>>
    /\ UNCHANGED <<prefixVars, fuzzyVars, weekVars, dealVars, rerunVars, sheetVars, fetchVars>>

\* main(): weekly_data = aggregate_daily_to_weekly(daily_data)
AggregateGoogle ==
    /\ platform = "google"
    /\ pc = "fetched"
    /\ LET out == google_aggregate_daily_to_weekly(daily_data)
       IN  /\ weekly_data' = out.weekly
           /\ pc' = IF out.raised THEN "raised" ELSE "aggregated"
    /\ UNCHANGED <<platform, daily_data, rows>>
    /\ UNCHANGED <<prefixVars, fuzzyVars, weekVars, dealVars, rerunVars, sheetVars, fetchVars>>

\* main(): hubspot_campaigns = load_hubspot_campaigns(gc, SPREADSHEET_ID),
\* between the aggregation and the row building of each of the three scripts
LoadHubspotCampaigns ==
    /\ pc = "aggregated"
    /\ run = 1
    /\ hubspot_campaigns' \in RunCatalogs
    /\ pc' = "loaded"
    /\ UNCHANGED <<campaign_name, matched_campaign, mpc>>
    /\ UNCHANGED <<platform, daily_data, weekly_data, rows>>
    /\ UNCHANGED <<fuzzyVars, weekVars, dealVars, rerunVars, sheetVars, fetchVars>>

\* main(): headers, rows = process_weekly_data(weekly_data, hubspot_campaigns)
ProcessGoogle ==
    /\ platform = "google"
    /\ pc = "loaded"
    /\ rows' = google_process_weekly_data(weekly_data, hubspot_campaigns)
    /\ pc' = "processed"
    /\ UNCHANGED <<platform, daily_data, weekly_data>>
    /\ UNCHANGED <<prefixVars, fuzzyVars, weekVars, dealVars, rerunVars, sheetVars, fetchVars>>

\* main(): weekly_data = aggregate_ads_daily_to_weekly(daily_data)
AggregateMetaAds ==
    /\ platform = "meta_ads"
    /\ pc = "fetched"
    /\ LET out == aggregate_ads_daily_to_weekly(daily_data)
       IN  /\ weekly_data' = out.weekly
           /\ pc' = IF out.raised THEN "raised" ELSE "aggregated"
    /\ UNCHANGED <<platform, daily_data, rows>>
    /\ UNCHANGED <<prefixVars, fuzzyVars, weekVars, dealVars, rerunVars, sheetVars, fetchVars>>

\* main(): headers, rows = process_weekly_ad_data(weekly_data, hubspot_campaigns)
ProcessMetaAds ==
    /\ platform = "meta_ads"
    /\ pc = "loaded"
    /\ rows' = process_weekly_ad_data(weekly_data, hubspot_campaigns)
    /\ pc' = "processed"
    /\ UNCHANGED <<platform, daily_data, weekly_data>>
    /\ UNCHANGED <<prefixVars, fuzzyVars, weekVars, dealVars, rerunVars, sheetVars, fetchVars>>

\* main(): weekly_data = aggregate_daily_to_weekly(daily_data)
AggregateMeta ==
    /\ platform = "meta"
    /\ pc = "fetched"
    /\ LET out == meta_aggregate_daily_to_weekly(daily_data)
       IN  /\ weekly_data' = out.weekly
           /\ pc' = IF out.raised THEN "raised" ELSE "aggregated"
    /\ UNCHANGED <<platform, daily_data, rows>>
    /\ UNCHANGED <<prefixVars, fuzzyVars, weekVars, dealVars, rerunVars, sheetVars, fetchVars>>

\* main(): headers, rows = process_weekly_data(weekly_data, hubspot_campaigns)
ProcessMeta ==
    /\ platform = "meta"
    /\ pc = "loaded"
    /\ rows' = meta_process_weekly_data(weekly_data, hubspot_campaigns)
    /\ pc' = "processed"
    /\ UNCHANGED <<platform, daily_data, weekly_data>>
    /\ UNCHANGED <<prefixVars, fuzzyVars, weekVars, dealVars, rerunVars, sheetVars, fetchVars>>

\* the script is started a second time on the same fetched records: what the
\* first execution left in weekly_data and rows is still there
RunAgain ==
    /\ pc = "processed"
    /\ run = 1
    /\ run' = 2
    /\ first_rows' = rows
    /\ pc' = "fetched"
    /\ UNCHANGED <<platform, daily_data, weekly_data, rows>>
    /\ UNCHANGED <<prefixVars, fuzzyVars, weekVars, dealVars, sheetVars, fetchVars>>

\* main() of the second execution: load_hubspot_campaigns reads the same sheet
\* column again
ReloadHubspotCampaigns ==
    /\ pc = "aggregated"
    /\ run = 2
    /\ pc' = "loaded"
    /\ UNCHANGED <<platform, daily_data, weekly_data, rows>>
    /\ UNCHANGED <<prefixVars, fuzzyVars, weekVars, dealVars, rerunVars, sheetVars, fetchVars>>

\* "CampaignX"
CampaignX == <<67,97,109,112,97,105,103,110,88>>

\* the Mondays and the daily impressions and clicks (Monday first) of the
\* seven records of one campaign over one week
WeekMondays == { <<2025, 7, 7>>, <<2024, 12, 30>> }
WeekProfiles ==
    { [impressions |-> <<100, 0, 0, 0, 0, 0, 0>>, clicks |-> <<5, 0, 0, 0, 0, 0, 0>>],
      [impressions |-> <<10, 20, 30, 0, 0, 0, 40>>, clicks |-> <<1, 0, 2, 0, 0, 0, 3>>] }

\* the record of day k (1 = Monday) of the week
WeekRecord(monday, v, k) ==
    GoogleRecord(strftime(strptime(monday) + k - 1), CampaignX,
                 [cost_micros |-> 10000 * v.clicks[k], impressions |-> v.impressions[k],
                  clicks |-> v.clicks[k], search_impression_share |-> NoShare,
                  search_click_share |-> NoShare, currency_code |-> EUR])

\* main() of google_ads_to_sheets.py with the seven records fetched in any order
SevenDaysInit ==
    /\ platform = "google"
    /\ \E monday \in WeekMondays, v \in WeekProfiles, p \in Permutations(1..7) :
          daily_data = [i \in 1..7 |-> WeekRecord(monday, v, p[i])]
    /\ weekly_data = << >>
    /\ rows = << >>
    /\ pc = "fetched"

----------------------------------------------------------------------------
(* HubSpot deals report: hubspot_to_sheets.py 38-90, 159-178, 263-306,     *)
(* 363-393                                                                  *)

PIPELINE_MAP ==
    \* "77766861": "Sales - Pipeline"
    (<<55,55,55,54,54,56,54,49>> :> <<83,97,108,101,115,32,45,32,80,105,112,101,108,105,110,101>>)
    \* "75805933": "Marketing - Inbound automated Micro/Small Pipeline"
    @@ (<<55,53,56,48,53,57,51,51>> :> <<77,97,114,107,101,116,105,110,103,32,45,32,73,110,98,111,117,110,100,32,97,117,116,111,109,97,116,101,100,32,77,105,99,114,111,47,83,109,97,108,108,32,80,105,112,101,108,105,110,101>>)
    \* "127897798": "Partner - Pipeline"
    @@ (<<49,50,55,56,57,55,55,57,56>> :> <<80,97,114,116,110,101,114,32,45,32,80,105,112,101,108,105,110,101>>)
    \* "258360802": "Account Management - Churn Pipeline"
    @@ (<<50,53,56,51,54,48,56,48,50>> :> <<65,99,99,111,117,110,116,32,77,97,110,97,103,101,109,101,110,116,32,45,32,67,104,117,114,110,32,80,105,112,101,108,105,110,101>>)
    \* "1347411134": "Partnership - Pipeline"
    @@ (<<49,51,52,55,52,49,49,49,51,52>> :> <<80,97,114,116,110,101,114,115,104,105,112,32,45,32,80,105,112,101,108,105,110,101>>)
    \* "208540610": "Account Management - Pipeline"
    @@ (<<50,48,56,53,52,48,54,49,48>> :> <<65,99,99,111,117,110,116,32,77,97,110,97,103,101,109,101,110,116,32,45,32,80,105,112,101,108,105,110,101>>)

STAGE_MAP ==
    \* "184232166": "SQL"
    (<<49,56,52,50,51,50,49,54,54>> :> <<83,81,76>>)
    \* "184232167": "Discovery meetings"
    @@ (<<49,56,52,50,51,50,49,54,55>> :> <<68,105,115,99,111,118,101,114,121,32,109,101,101,116,105,110,103,115>>)
    \* "2705937612": "NBM Pending Review"
    @@ (<<50,55,48,53,57,51,55,54,49,50>> :> <<78,66,77,32,80,101,110,100,105,110,103,32,82,101,118,105,101,119>>)
    \* "184232168": "Business Meeting"
    @@ (<<49,56,52,50,51,50,49,54,56>> :> <<66,117,115,105,110,101,115,115,32,77,101,101,116,105,110,103>>)
    \* "184232169": "Negotiation"
    @@ (<<49,56,52,50,51,50,49,54,57>> :> <<78,101,103,111,116,105,97,116,105,111,110>>)
    \* "184220904": "Onboarding Initiated"
    @@ (<<49,56,52,50,50,48,57,48,52>> :> <<79,110,98,111,97,114,100,105,110,103,32,73,110,105,116,105,97,116,101,100>>)
    \* "184220905": "Onboarding Completed"
    @@ (<<49,56,52,50,50,48,57,48,53>> :> <<79,110,98,111,97,114,100,105,110,103,32,67,111,109,112,108,101,116,101,100>>)
    \* "184232171": "Won"
    @@ (<<49,56,52,50,51,50,49,55,49>> :> <<87,111,110>>)
    \* "184232172": "Closed lost"
    @@ (<<49,56,52,50,51,50,49,55,50>> :> <<67,108,111,115,101,100,32,108,111,115,116>>)
    \* "181259987": "Inbound Created"
    @@ (<<49,56,49,50,53,57,57,56,55>> :> <<73,110,98,111,117,110,100,32,67,114,101,97,116,101,100>>)
    \* "181259988": "Proposal sent"
    @@ (<<49,56,49,50,53,57,57,56,56>> :> <<80,114,111,112,111,115,97,108,32,115,101,110,116>>)
    \* "181259989": "Registered"
    @@ (<<49,56,49,50,53,57,57,56,57>> :> <<82,101,103,105,115,116,101,114,101,100>>)
    \* "720800761": "KYC Pending Approval"
    @@ (<<55,50,48,56,48,48,55,54,49>> :> <<75,89,67,32,80,101,110,100,105,110,103,32,65,112,112,114,111,118,97,108>>)
    \* "181259990": "Onboarding Completed"
    @@ (<<49,56,49,50,53,57,57,57,48>> :> <<79,110,98,111,97,114,100,105,110,103,32,67,111,109,112,108,101,116,101,100>>)
    \* "2019815647": "Integration Completed"
    @@ (<<50,48,49,57,56,49,53,54,52,55>> :> <<73,110,116,101,103,114,97,116,105,111,110,32,67,111,109,112,108,101,116,101,100>>)
    \* "181259992": "Won"
    @@ (<<49,56,49,50,53,57,57,57,50>> :> <<87,111,110>>)
    \* "181259993": "Closed lost"
    @@ (<<49,56,49,50,53,57,57,57,51>> :> <<67,108,111,115,101,100,32,108,111,115,116>>)
    \* "256106455": "Target"
    @@ (<<50,53,54,49,48,54,52,53,53>> :> <<84,97,114,103,101,116>>)
    \* "256106456": "In discussion"
    @@ (<<50,53,54,49,48,54,52,53,54>> :> <<73,110,32,100,105,115,99,117,115,115,105,111,110>>)
    \* "256106457": "Live & Engaged"
    @@ (<<50,53,54,49,48,54,52,53,55>> :> <<76,105,118,101,32,38,32,69,110,103,97,103,101,100>>)
    \* "256106458": "Live & Sleeping"
    @@ (<<50,53,54,49,48,54,52,53,56>> :> <<76,105,118,101,32,38,32,83,108,101,101,112,105,110,103>>)
    \* "256106459": "Not interested"
    @@ (<<50,53,54,49,48,54,52,53,57>> :> <<78,111,116,32,105,110,116,101,114,101,115,116,101,100>>)
    \* "428007611": "Churn Risk"
    @@ (<<52,50,56,48,48,55,54,49,49>> :> <<67,104,117,114,110,32,82,105,115,107>>)
    \* "428007613": "Negotiation"
    @@ (<<52,50,56,48,48,55,54,49,51>> :> <<78,101,103,111,116,105,97,116,105,111,110>>)
    \* "428007616": "Churn"
    @@ (<<52,50,56,48,48,55,54,49,54>> :> <<67,104,117,114,110>>)
    \* "428007617": "Retained"
    @@ (<<52,50,56,48,48,55,54,49,55>> :> <<82,101,116,97,105,110,101,100>>)
    \* "2586233042": "Inbound Created"
    @@ (<<50,53,56,54,50,51,51,48,52,50>> :> <<73,110,98,111,117,110,100,32,67,114,101,97,116,101,100>>)
    \* "1834011865": "Proposal sent"
    @@ (<<49,56,51,52,48,49,49,56,54,53>> :> <<80,114,111,112,111,115,97,108,32,115,101,110,116>>)
    \* "1834011866": "KYC Pending Approval"
    @@ (<<49,56,51,52,48,49,49,56,54,54>> :> <<75,89,67,32,80,101,110,100,105,110,103,32,65,112,112,114,111,118,97,108>>)
    \* "2019816637": "Onboarding Completed"
    @@ (<<50,48,49,57,56,49,54,54,51,55>> :> <<79,110,98,111,97,114,100,105,110,103,32,67,111,109,112,108,101,116,101,100>>)
    \* "2021900503": "Integration Completed"
    @@ (<<50,48,50,49,57,48,48,53,48,51>> :> <<73,110,116,101,103,114,97,116,105,111,110,32,67,111,109,112,108,101,116,101,100>>)
    \* "1834011870": "Won"
    @@ (<<49,56,51,52,48,49,49,56,55,48>> :> <<87,111,110>>)
    \* "1834011871": "Closed Lost"
    @@ (<<49,56,51,52,48,49,49,56,55,49>> :> <<67,108,111,115,101,100,32,76,111,115,116>>)
    \* "363460847": "Target"
    @@ (<<51,54,51,52,54,48,56,52,55>> :> <<84,97,114,103,101,116>>)
    \* "363460848": "Discovery meetings"
    @@ (<<51,54,51,52,54,48,56,52,56>> :> <<68,105,115,99,111,118,101,114,121,32,109,101,101,116,105,110,103,115>>)
    \* "363460849": "Business Meeting"
    @@ (<<51,54,51,52,54,48,56,52,57>> :> <<66,117,115,105,110,101,115,115,32,77,101,101,116,105,110,103>>)
    \* "363460850": "Validation & Negotiation"
    @@ (<<51,54,51,52,54,48,56,53,48>> :> <<86,97,108,105,100,97,116,105,111,110,32,38,32,78,101,103,111,116,105,97,116,105,111,110>>)
    \* "362959344": "Final proposal to EB"
    @@ (<<51,54,50,57,53,57,51,52,52>> :> <<70,105,110,97,108,32,112,114,111,112,111,115,97,108,32,116,111,32,69,66>>)
    \* "362959345": "Contract signed"
    @@ (<<51,54,50,57,53,57,51,52,53>> :> <<67,111,110,116,114,97,99,116,32,115,105,103,110,101,100>>)
    \* "363460851": "Won"
    @@ (<<51,54,51,52,54,48,56,53,49>> :> <<87,111,110>>)
    \* "363460852": "Closed lost"
    @@ (<<51,54,51,52,54,48,56,53,50>> :> <<67,108,111,115,101,100,32,108,111,115,116>>)
    \* "363503572": "Terminated"
    @@ (<<51,54,51,53,48,51,53,55,50>> :> <<84,101,114,109,105,110,97,116,101,100>>)

COLUMN_MAPPING ==
    << <<"deal_qualification_date", "Deal qualification date">>,
       <<"legal_entity_country_region", "Legal Entity - Country/Region">>,
       <<"amount", "Amount">>,
       <<"ttv_all_time", "TTV All Time">>,
       <<"conversion_touch__utm_medium", "Conversion Touch: UTM Medium">>,
       <<"conversion_touch__utm_source", "Conversion Touch: UTM Source">>,
       <<"conversion_touch__utm_content", "Conversion Touch: UTM Content">>,
       <<"conversion_touch__utm_campaign", "Conversion Touch: UTM Campaign">>,
       <<"conversion_touch__referral_source", "Conversion Touch: Referral Source">>,
       <<"conversion_touch__aggregate_source", "Conversion Touch: Aggregate Source">>,
       <<"store_type", "Store type">>,
       <<"pipeline", "Pipeline">>,
       <<"dealstage", "Deal Stage">>,
       <<"hs_object_id", "Deal ID">>,
       <<"hs_date_entered_720800761", "Date entered KYC Pending Approval (Marketing)">>,
       <<"hs_date_entered_184220904", "Date entered Onboarding Initiated (Sales)">> >>

\* a value of the "properties" dict of a deal: the key is absent, or holds
\* None, or holds a str
Missing == [kind |-> "missing", s |-> EmptyStr]
NoneValue == [kind |-> "none", s |-> EmptyStr]
StrValue(s) == [kind |-> "str", s |-> s]

PropNames == { COLUMN_MAPPING[i][1] : i \in 1..Len(COLUMN_MAPPING) }

\* "b2b_brand_auction"
B2B_brand == <<98,50,98,95,98,114,97,110,100,95,97,117,99,116,105,111,110>>
\* "2025-07-07T09:00:00Z"
Stamp1 == <<50,48,50,53,45,48,55,45,48,55,84,48,57,58,48,48,58,48,48,90>>
\* "2025-07-08T09:00:00Z"
Stamp2 == <<50,48,50,53,45,48,55,45,48,56,84,48,57,58,48,48,58,48,48,90>>
\* "77766861"
SalesPipelineId == <<55,55,55,54,54,56,54,49>>
\* "184232166"
SqlStageId == <<49,56,52,50,51,50,49,54,54>>
\* "1000"
Amount1000 == <<49,48,48,48>>

\* the deals fetch_all_deals may return: every property a str, or only the
\* date and the UTM campaign present (as None or as a str)
Deal(date, utm, rest) ==
    [properties |->
        [p \in PropNames |->
            IF p = "deal_qualification_date" THEN date
            ELSE IF p = "conversion_touch__utm_campaign" THEN utm
            ELSE IF rest.kind # "str" THEN rest
            ELSE IF p = "pipeline" THEN StrValue(SalesPipelineId)
            ELSE IF p = "dealstage" THEN StrValue(SqlStageId)
            ELSE rest]]

DealPool ==
    { Deal(StrValue(Stamp1), StrValue(B2B_2025_q1), StrValue(Amount1000)),
      Deal(StrValue(Stamp2), StrValue(Summer_Sale), StrValue(Amount1000)),
      Deal(StrValue(Stamp1), StrValue(TemplateCampaign), StrValue(Amount1000)),
      Deal(NoneValue, StrValue(B2B_2025_q1), Missing),
      Deal(Missing, NoneValue, NoneValue),
      Deal(StrValue(Stamp2), Missing, Missing) }

\* the lists load_meta_campaigns / load_google_campaigns may return
DealCatalogs ==
    { << >>, << B2B_2024_q4 >>, << B2B_brand >>, << Summer_Sale_EU, B2B_2025_q1 >> }

\* the value appended to the row for one property
DealValue(props, prop_name) ==
    LET got   == props[prop_name]
        value == IF got.kind = "missing" THEN EmptyStr
                 ELSE IF got.kind = "none" THEN NoValue
                 ELSE got.s
    IN  IF prop_name = "pipeline" /\ value \in DOMAIN PIPELINE_MAP
        THEN PIPELINE_MAP[value]
        ELSE IF prop_name = "dealstage" /\ value \in DOMAIN STAGE_MAP
        THEN STAGE_MAP[value]
        ELSE value

find_matching_meta_campaign(utm, meta) ==
    find_best_match(utm, meta, DefaultMinPrefixLength)

find_matching_google_campaign(utm, google) ==
    find_best_match(utm, google, DefaultMinPrefixLength)

\* mutant: the Meta result always wins when there is one
PickMatchedCampaign_metafirst(matched_meta, matched_google) ==
    IF matched_meta # EmptyStr THEN matched_meta ELSE matched_google

\* mutant: of two results the shorter one is picked
PickMatchedCampaign_shorter(matched_meta, matched_google) ==
    IF matched_meta # EmptyStr /\ matched_google # EmptyStr
    THEN IF Len(matched_meta) <= Len(matched_google) THEN matched_meta ELSE matched_google
    ELSE IF matched_meta # EmptyStr THEN matched_meta ELSE matched_google

\* "Pick the longest match": the choice between the two per-catalog results
PickMatchedCampaign(matched_meta, matched_google) ==
    IF matched_meta # EmptyStr /\ matched_google # EmptyStr
    THEN IF Len(matched_meta) >= Len(matched_google) THEN matched_meta ELSE matched_google
    ELSE IF matched_meta # EmptyStr THEN matched_meta ELSE matched_google

\* mutant: the matched campaign is not appended to the row
DealRow_nomatched(deal, meta, google) ==
    [i \in 1..Len(COLUMN_MAPPING) |-> Str(DealValue(deal.properties, COLUMN_MAPPING[i][1]))]

\* one row of process_deals: the 16 mapped properties, then the matched campaign
DealRow(deal, meta, google) ==
    LET props == deal.properties
        utm   == DealValue(props, "conversion_touch__utm_campaign")
    IN  [i \in 1..Len(COLUMN_MAPPING) |-> Str(DealValue(props, COLUMN_MAPPING[i][1]))]
        \o << Str(PickMatchedCampaign(find_matching_meta_campaign(utm, meta),
                                      find_matching_google_campaign(utm, google))) >>

DealHeaders ==
    [i \in 1..Len(COLUMN_MAPPING) |-> COLUMN_MAPPING[i][2]] \o << "Matched Campaign" >>

\* key=lambda x: x[0] if x[0] else ""
DealSortKey(row) == << row[1].s >>

process_deals(ds, meta, google) ==
    LET built == [i \in 1..Len(ds) |-> DealRow(ds[i], meta, google)]
    IN  SortByKey(built, [i \in 1..Len(built) |-> DealSortKey(built[i])])

DealsIdle ==
    /\ deals = << >>
    /\ meta_campaigns = << >>
    /\ google_campaigns = << >>

FirstRun ==
    /\ run = 1
    /\ first_rows = << >>

\* main(): deals = fetch_all_deals(start_ts, end_ts)
DealsInit ==
    /\ platform = "hubspot"
    /\ deals \in SeqsUpTo(DealPool, MaxRecords)
    /\ meta_campaigns = << >>
    /\ google_campaigns = << >>
    /\ daily_data = << >>
    /\ weekly_data = << >>
    /\ rows = << >>
    /\ pc = "deals_fetched"

\* main(): if not deals: return
NoDeals ==
    /\ pc = "deals_fetched"
    /\ deals = << >>
    /\ pc' = "no_deals"
    /\ UNCHANGED <<platform, daily_data, weekly_data, rows>>
    /\ UNCHANGED <<prefixVars, fuzzyVars, weekVars, dealVars, rerunVars, sheetVars, fetchVars>>

\* main(): meta_campaigns = load_meta_campaigns(...),
\* google_campaigns = load_google_campaigns(...)
LoadCampaigns ==
    /\ pc = "deals_fetched"
    /\ deals # << >>
    /\ meta_campaigns' \in DealCatalogs
    /\ google_campaigns' \in DealCatalogs
    /\ pc' = "campaigns_loaded"
    /\ UNCHANGED <<platform, daily_data, weekly_data, rows, deals>>
    /\ UNCHANGED <<prefixVars, fuzzyVars, weekVars, rerunVars, sheetVars, fetchVars>>

\* main(): headers, rows = process_deals(deals, meta_campaigns, google_campaigns)
ProcessDeals ==
    /\ pc = "campaigns_loaded"
    /\ rows' = process_deals(deals, meta_campaigns, google_campaigns)
    /\ pc' = "deals_processed"
    /\ UNCHANGED <<platform, daily_data, weekly_data>>
    /\ UNCHANGED <<prefixVars, fuzzyVars, weekVars, dealVars, rerunVars, sheetVars, fetchVars>>

----------------------------------------------------------------------------
(* Worksheets: update_google_sheets of the four report scripts and          *)
(* write_to_sheet of import_to_sheets.py.  A worksheet is a grid of         *)
(* row_count x col_count cells; cells maps the positions <<row, column>>    *)
(* that hold a value to that value, every other position is empty.          *)

Max(a, b) == IF a > b THEN a ELSE b

\* a value of a row builder as the sheet stores it
SheetCell(c) == [kind |-> c.kind, n |-> c.n, s |-> c.s, label |-> ""]
\* a header text as the sheet stores it
HeaderCell(h) == [kind |-> "str", n |-> 0, s |-> EmptyStr, label |-> h]
\* the value "" of a values list: it empties the cell it is written to
Blank == SheetCell(Empty)

\* "=SUM": a formula a user keeps to the right of the report
Formula == SheetCell(Str(<<61,83,85,77>>))
\* "old": a value left by an earlier write
OldValue == SheetCell(Str(<<111,108,100>>))

NoCells == [p \in {} |-> Blank]

NoWorksheet ==
    [exists |-> FALSE, row_count |-> 0, col_count |-> 0, cells |-> NoCells,
     header_bold |-> FALSE, number_format |-> {}]

\* the positions a values list covers when written with its top left at <<r1, c1>>
Covered(r1, c1, values) ==
    UNION { { <<r1 + i - 1, c1 + j - 1>> : j \in 1..Len(values[i]) } : i \in 1..Len(values) }

\* the cells after the values are stored: a "" empties its position
UpdateCells(cells, r1, c1, values) ==
    LET written == Covered(r1, c1, values)
        val(p)  == values[p[1] - r1 + 1][p[2] - c1 + 1]
        keep    == { p \in DOMAIN cells : p \notin written }
                   \cup { p \in written : val(p) # Blank }
    IN  [p \in keep |-> IF p \in written THEN val(p) ELSE cells[p]]

\* what the Sheets service does with a range that reaches beyond the grid:
\* the scripts do not resize the worksheet, so the request either grows the
\* grid or is rejected with an APIError
GridOutcomes == { "expands", "rejects" }

\* worksheet.update(range_name=..., values=...) on the range r1..r2 x c1..c2
worksheet_update(ws, r1, c1, r2, c2, values, grid) ==
    IF \/ Len(values) > r2 - r1 + 1
       \/ \E i \in 1..Len(values) : Len(values[i]) > c2 - c1 + 1
    THEN [raised |-> TRUE, worksheet |-> ws]
    ELSE IF (r2 > ws.row_count \/ c2 > ws.col_count) /\ grid = "rejects"
    THEN [raised |-> TRUE, worksheet |-> ws]
    ELSE [raised |-> FALSE,
          worksheet |-> [ws EXCEPT !.row_count = Max(@, r2),
                                   !.col_count = Max(@, c2),
                                   !.cells = UpdateCells(@, r1, c1, values)]]

\* mutant: every script clears and writes 'A1:Z'
RangeWidth_wide(plat) == 26

\* the literal column count of the range a script clears and writes:
\* 'A1:Z', 'A1:P', 'A1:L', 'A1:Q'
RangeWidth(plat) ==
    IF plat = "meta_ads" THEN 26
    ELSE IF plat = "meta" THEN 16
    ELSE IF plat = "google" THEN 12
    ELSE 17

\* spreadsheet.add_worksheet(title=SHEET_NAME, rows=..., cols=...)
add_worksheet(plat) ==
    [exists |-> TRUE,
     row_count |-> IF plat = "meta_ads" THEN 2000
                   ELSE IF plat = "hubspot" THEN 1000 ELSE 500,
     col_count |-> IF plat = "meta_ads" THEN 50 ELSE 30,
     cells |-> NoCells, header_bold |-> FALSE, number_format |-> {}]

\* the number formats apply_formatting sets, as <<column, type>>
NumberFormats(plat) ==
    IF plat = "meta_ads"
    THEN { <<7, "CURRENCY">>, <<10, "CURRENCY">>, <<11, "PERCENT">>, <<12, "CURRENCY">>,
           <<14, "PERCENT">>, <<15, "CURRENCY">>, <<16, "PERCENT">>, <<17, "PERCENT">>,
           <<18, "PERCENT">>, <<19, "PERCENT">>, <<22, "CURRENCY">> }
    ELSE IF plat = "meta"
    THEN { <<7, "CURRENCY">>, <<8, "CURRENCY">>, <<13, "CURRENCY">>,
           <<9, "PERCENT">>, <<10, "PERCENT">> }
    ELSE IF plat = "google"
    THEN { <<4, "CURRENCY">>, <<6, "CURRENCY">>, <<8, "PERCENT">>, <<9, "CURRENCY">>,
           <<10, "PERCENT">>, <<11, "PERCENT">> }
    ELSE { <<3, "CURRENCY">>, <<4, "CURRENCY">> }

\* apply_formatting: the whole of row 1 bold, number formats from row 2 down;
\* a repeatCell request changes formats only
apply_formatting(ws, plat) ==
    LET new == NumberFormats(plat)
    IN  [ws EXCEPT !.header_bold = TRUE,
                   !.number_format =
                       { f \in @ : \A g \in new : g[1] # f[1] } \cup new]

\* all_data = [headers] + rows
AllData(headers, rs) ==
    << [j \in 1..Len(headers) |-> HeaderCell(headers[j])] >>
    \o [i \in 1..Len(rs) |-> [j \in 1..Len(rs[i]) |-> SheetCell(rs[i][j])]]

\* empty_range = [[""] * 26 for _ in range(current_row_count)]
EmptyRange(nrows, ncols) == [i \in 1..nrows |-> [j \in 1..ncols |-> Blank]]

\* the headers list a row builder returns with its rows
HeadersOf(plat) ==
    IF plat = "google" THEN GoogleHeaders
    ELSE IF plat = "meta_ads" THEN MetaAdsHeaders
    ELSE IF plat = "meta" THEN MetaHeaders
    ELSE DealHeaders

\* update_google_sheets(headers, rows): the worksheet after the call, and
\* whether the call raised
update_google_sheets(ws, plat, headers, rs, grid) ==
    LET w        == RangeWidth(plat)
        cleared  == IF ~ ws.exists
                    THEN [raised |-> FALSE, worksheet |-> add_worksheet(plat)]
                    ELSE IF ws.row_count > 0
                    THEN worksheet_update(ws, 1, 1, ws.row_count, w,
                                          EmptyRange(ws.row_count, w), grid)
                    ELSE [raised |-> FALSE, worksheet |-> ws]
        all_data == AllData(headers, rs)
        wrote    == worksheet_update(cleared.worksheet, 1, 1, Len(all_data), w,
                                     all_data, grid)
    IN  IF cleared.raised THEN cleared
        ELSE IF wrote.raised THEN wrote
        ELSE [raised |-> FALSE, worksheet |-> apply_formatting(wrote.worksheet, plat)]

\* the row counts of the worksheets a report finds
PriorRowCounts == { 1, 2, 5 }

\* a worksheet with values of an earlier write in the report's columns and
\* formulas in the two columns to their right
PriorSheet(w, n) ==
    LET old     == { <<1, 1>>, <<n, 1>>, <<n, w>> }
        formula == { <<1, w + 1>>, <<n, w + 1>>, <<n, w + 2>> }
    IN  [exists |-> TRUE, row_count |-> n, col_count |-> w + 2,
         cells |-> [p \in old \cup formula |-> IF p \in formula THEN Formula ELSE OldValue],
         header_bold |-> FALSE, number_format |-> {}]

SheetIdle ==
    /\ worksheet = NoWorksheet
    /\ sheet_before = NoWorksheet
    /\ data = << >>
    /\ max_col = EmptyStr

\* the catalog of the runs whose write is followed
SheetCatalog == << Summer_Sale_EU, Summer >>

\* main() of a weekly report, at the call of update_google_sheets
ReportReady ==
    /\ \/ /\ platform = "google"
          /\ daily_data \in SeqsUpTo(GoogleRecords, MaxRecords)
          /\ ~ google_aggregate_daily_to_weekly(daily_data).raised
          /\ weekly_data = google_aggregate_daily_to_weekly(daily_data).weekly
          /\ rows = google_process_weekly_data(weekly_data, SheetCatalog)
       \/ /\ platform = "meta_ads"
          /\ daily_data \in SeqsUpTo(MetaAdsRecords, MaxRecords)
          /\ ~ aggregate_ads_daily_to_weekly(daily_data).raised
          /\ weekly_data = aggregate_ads_daily_to_weekly(daily_data).weekly
          /\ rows = process_weekly_ad_data(weekly_data, SheetCatalog)
       \/ /\ platform = "meta"
          /\ daily_data \in SeqsUpTo(MetaRecords, MaxRecords)
          /\ ~ meta_aggregate_daily_to_weekly(daily_data).raised
          /\ weekly_data = meta_aggregate_daily_to_weekly(daily_data).weekly
          /\ rows = meta_process_weekly_data(weekly_data, SheetCatalog)
    /\ campaign_name = EmptyStr
    /\ hubspot_campaigns = SheetCatalog
    /\ matched_campaign = EmptyStr
    /\ mpc = "idle"
    /\ pc = "processed"
    /\ DealsIdle

\* main() of hubspot_to_sheets.py, at the call of update_google_sheets
DealsReady ==
    /\ platform = "hubspot"
    /\ deals \in SeqsUpTo(DealPool, MaxRecords) \ { << >> }
    /\ meta_campaigns = << B2B_brand >>
    /\ google_campaigns = << B2B_2024_q4 >>
    /\ daily_data = << >>
    /\ weekly_data = << >>
    /\ rows = process_deals(deals, meta_campaigns, google_campaigns)
    /\ pc = "deals_processed"
    /\ PrefixIdle

\* the worksheet named SHEET_NAME as the run finds it
SheetInit ==
    /\ worksheet \in { NoWorksheet }
                     \cup { PriorSheet(RangeWidth(platform), n) : n \in PriorRowCounts }
    /\ sheet_before = worksheet
    /\ data = << >>
    /\ max_col = EmptyStr

\* main(): row_count = update_google_sheets(headers, rows)
UpdateGoogleSheets ==
    /\ pc \in { "processed", "deals_processed" }
    /\ \E grid \in GridOutcomes :
          LET out == update_google_sheets(worksheet, platform, HeadersOf(platform),
                                          rows, grid)
          IN  /\ worksheet' = out.worksheet
              /\ pc' = IF out.raised THEN "update_raised" ELSE "updated"
    /\ sheet_before' = worksheet
    /\ UNCHANGED <<platform, daily_data, weekly_data, rows, data, max_col>>
    /\ UNCHANGED <<prefixVars, fuzzyVars, weekVars, dealVars, rerunVars, fetchVars>>

(* import_to_sheets.py: prepare_data_for_sheets and write_to_sheet *)

\* FILE_MAPPING[...]["max_col"]: "P", "Y", "O", "K", "L"
MaxCols == { <<80>>, <<89>>, <<79>>, <<75>>, <<76>> }

\* letter.upper()
upper(ch) == IF ch >= 97 /\ ch <= 122 THEN ch - 32 ELSE ch

RECURSIVE col_letter_scan(_, _)
col_letter_scan(letter, result) ==
    IF letter = << >> THEN result
    ELSE col_letter_scan(Tail(letter), result * 26 + (upper(Head(letter)) - 65 + 1))

\* col_letter_to_num: A=1, ..., Z=26, AA=27, ...
col_letter_to_num(letter) == col_letter_scan(letter, 0)

\* a NaN of the DataFrame read from the file
NaN == [kind |-> "nan", n |-> 0, s |-> EmptyStr, label |-> ""]
\* "new": a value of the file
NewValue == SheetCell(Str(<<110,101,119>>))

\* df.iloc[:, :max_col_num].fillna("").values.tolist()
prepare_data_for_sheets(df, max_col_letter) ==
    LET max_col_num == col_letter_to_num(max_col_letter)
    IN  [i \in 1..Len(df) |->
            [j \in 1..Min(Len(df[i]), max_col_num) |->
                IF df[i][j] = NaN THEN Blank ELSE df[i][j]]]

\* worksheet.batch_clear([range]): the values of the range are removed
batch_clear(ws, r1, c1, r2, c2) ==
    [ws EXCEPT !.cells =
        [p \in { q \in DOMAIN @ : ~ (q[1] >= r1 /\ q[1] <= r2 /\ q[2] >= c1 /\ q[2] <= c2) }
            |-> @[p]]]

\* the last row write_to_sheet clears: "Limitiamo a 10000 righe per sicurezza"
ClearLimit == 10000

\* mutant: the rows after the data are cleared to the end of the grid
write_to_sheet_nolimit(ws, rs, max_col_letter, grid) ==
    LET max_col_num == col_letter_to_num(max_col_letter)
        end_row     == 2 + Len(rs) - 1
        wrote       == worksheet_update(ws, 2, 1, end_row, max_col_num, rs, grid)
    IN  IF ~ ws.exists \/ rs = << >>
        THEN [ok |-> FALSE, raised |-> FALSE, worksheet |-> ws]
        ELSE IF wrote.raised
        THEN [ok |-> FALSE, raised |-> TRUE, worksheet |-> ws]
        ELSE IF end_row < ws.row_count
        THEN [ok |-> TRUE, raised |-> FALSE,
              worksheet |-> batch_clear(wrote.worksheet, end_row + 1, 1,
                                        ws.row_count, max_col_num)]
        ELSE [ok |-> TRUE, raised |-> FALSE, worksheet |-> wrote.worksheet]

\* write_to_sheet(spreadsheet, sheet_name, data, max_col): its return value,
\* whether it raised, and the worksheet after the call
write_to_sheet(ws, rs, max_col_letter, grid) ==
    LET max_col_num  == col_letter_to_num(max_col_letter)
        start_row    == 2
        end_row      == start_row + Len(rs) - 1
        wrote        == worksheet_update(ws, start_row, 1, end_row, max_col_num, rs, grid)
        current_rows == ws.row_count
        clear_end    == Min(current_rows, ClearLimit)
    IN  IF ~ ws.exists \/ rs = << >>
        THEN [ok |-> FALSE, raised |-> FALSE, worksheet |-> ws]
        ELSE IF wrote.raised
        THEN [ok |-> FALSE, raised |-> TRUE, worksheet |-> ws]
        ELSE IF end_row < current_rows /\ end_row + 1 <= clear_end
        THEN [ok |-> TRUE, raised |-> FALSE,
              worksheet |-> batch_clear(wrote.worksheet, end_row + 1, 1,
                                        clear_end, max_col_num)]
        ELSE [ok |-> TRUE, raised |-> FALSE, worksheet |-> wrote.worksheet]

\* the rows of a file as read_file returns them: width columns, a value or a
\* NaN in the first column
FileRow(width, first) == [j \in 1..width |-> IF j = 1 THEN first ELSE NewValue]

\* the DataFrames of the files: one column less than max_col, as many, one more
DataFrames(max_col_num) ==
    UNION { SeqsUpTo({ FileRow(width, first) : first \in { NewValue, NaN } }, MaxRecords) :
            width \in { max_col_num - 1, max_col_num, max_col_num + 1 } }

\* the row counts of the worksheets an import finds: smaller than the data,
\* larger, and larger than the clearing limit
ImportRowCounts == { 1, 3, 6, ClearLimit + 2 }

\* a worksheet with a header row, earlier data down to its last row and
\* formulas to the right of max_col
ImportSheet(w, n) ==
    LET old     == { <<1, 1>>, <<1, w>>, <<2, 1>>, <<2, w>>, <<n - 1, w>>, <<n, 1>>, <<n, w>> }
                   \cap ((1..n) \X (1..w))
        formula == { <<1, w + 1>>, <<n, w + 1>> }
    IN  [exists |-> TRUE, row_count |-> n, col_count |-> w + 1,
         cells |-> [p \in old \cup formula |-> IF p \in formula THEN Formula ELSE OldValue],
         header_bold |-> TRUE, number_format |-> {}]

\* process_files, at the call of write_to_sheet for one file
ImportInit ==
    /\ platform = "import"
    /\ max_col \in MaxCols
    /\ data \in { prepare_data_for_sheets(df, max_col) :
                    df \in DataFrames(col_letter_to_num(max_col)) }
    /\ worksheet \in { NoWorksheet }
                     \cup { ImportSheet(col_letter_to_num(max_col), n) : n \in ImportRowCounts }
    /\ sheet_before = worksheet
    /\ daily_data = << >>
    /\ weekly_data = << >>
    /\ rows = << >>
    /\ pc = "import_ready"

\* process_files: success = write_to_sheet(spreadsheet, config['sheet_name'],
\* data, config['max_col']), an exception being caught by its caller
WriteToSheet ==
    /\ pc = "import_ready"
    /\ \E grid \in GridOutcomes :
          LET out == write_to_sheet(worksheet, data, max_col, grid)
          IN  /\ worksheet' = out.worksheet
              /\ pc' = IF out.raised THEN "write_raised"
                       ELSE IF out.ok THEN "written" ELSE "not_written"
    /\ sheet_before' = worksheet
    /\ UNCHANGED <<platform, daily_data, weekly_data, rows, data, max_col>>
    /\ UNCHANGED <<prefixVars, fuzzyVars, weekVars, dealVars, rerunVars, fetchVars>>

FetchIdle ==
    /\ since = EmptyStr
    /\ until = EmptyStr
    /\ current_start = 0
    /\ requested = << >>
    /\ fetch_pc = "idle"

----------------------------------------------------------------------------
(* fetch_ad_insights_daily: meta_ads_to_sheets.py 129-159 *)

\* longest range, in days after since, the fetch is followed on
MaxSpan == 62

\* date + relativedelta(months=1): the same day of the next month, the last day
\* of that month when it has no such day
add_month(ordinal) ==
    LET d == strftime(ordinal)
        y == IF d[2] = 12 THEN d[1] + 1 ELSE d[1]
        m == IF d[2] = 12 THEN 1 ELSE d[2] + 1
    IN  strptime(<< y, m, Min(d[3], DaysInMonth(y, m)) >>)

\* get_date_range starts on 2025-07-06; the first and the last day of a month,
\* a leap February and a turn of the year
FetchSinces == { <<2025, 7, 6>>, <<2025, 1, 1>>, <<2025, 1, 31>>, <<2024, 1, 31>>, <<2024, 12, 15>> }

FetchInit ==
    /\ since \in FetchSinces
    /\ until \in { strftime(strptime(since) + k) : k \in 0..MaxSpan }
    /\ current_start = strptime(since)
    /\ requested = << >>
    /\ fetch_pc = "fetching"

\* one iteration of `while current_start < end_date`: the chunk is requested
\* (a failed request is printed and skipped) and current_start moves on
FetchChunk ==
    /\ fetch_pc = "fetching"
    /\ current_start < strptime(until)
    /\ LET current_end == Min(add_month(current_start) - 1, strptime(until))
       IN  /\ requested' = Append(requested, << strftime(current_start), strftime(current_end) >>)
           /\ current_start' = current_end + 1
    /\ UNCHANGED <<since, until, fetch_pc>>
    /\ UNCHANGED <<prefixVars, fuzzyVars, weekVars, runVars, dealVars, rerunVars, sheetVars>>

\* the loop condition fails: return all_data
FetchReturn ==
    /\ fetch_pc = "fetching"
    /\ ~ (current_start < strptime(until))
    /\ fetch_pc' = "returned"
    /\ UNCHANGED <<since, until, current_start, requested>>
    /\ UNCHANGED <<prefixVars, fuzzyVars, weekVars, runVars, dealVars, rerunVars, sheetVars>>

----------------------------------------------------------------------------
(* Specifications *)

InitPrefix == PrefixInit /\ FuzzyIdle /\ WeekIdle /\ RunIdle /\ DealsIdle /\ FirstRun /\ SheetIdle /\ FetchIdle
NextPrefix == CallFindMatchingHubspotCampaign
SpecPrefix == InitPrefix /\ [][NextPrefix]_vars

InitFuzzy == PrefixIdle /\ FuzzyInit /\ WeekIdle /\ RunIdle /\ DealsIdle /\ FirstRun /\ SheetIdle /\ FetchIdle
NextFuzzy == CallFindBestMatch
SpecFuzzy == InitFuzzy /\ [][NextFuzzy]_vars

\* either matcher, called once on a query and a catalog
InitMatch ==
    /\ (PrefixInit /\ FuzzyIdle) \/ (PrefixIdle /\ FuzzyInit)
    /\ WeekIdle /\ RunIdle /\ DealsIdle /\ FirstRun /\ SheetIdle /\ FetchIdle
NextMatch == CallFindMatchingHubspotCampaign \/ CallFindBestMatch
SpecMatch == InitMatch /\ [][NextMatch]_vars

\* either matcher called once, or the deals report with its two catalogs
InitMatchers ==
    /\ WeekIdle /\ FirstRun /\ SheetIdle /\ FetchIdle
    /\ \/ PrefixInit /\ FuzzyIdle /\ RunIdle /\ DealsIdle
       \/ PrefixIdle /\ FuzzyInit /\ RunIdle /\ DealsIdle
       \/ PrefixIdle /\ FuzzyIdle /\ DealsInit
NextMatchers ==
    \/ CallFindMatchingHubspotCampaign \/ CallFindBestMatch
    \/ NoDeals \/ LoadCampaigns \/ ProcessDeals
SpecMatchers == InitMatchers /\ [][NextMatchers]_vars

\* a weekly report executed twice on the same records and catalog
InitTwice ==
    /\ PrefixIdle /\ FuzzyIdle /\ WeekIdle /\ FirstRun /\ SheetIdle /\ FetchIdle /\ DealsIdle
    /\ GoogleInit \/ MetaAdsInit \/ MetaInit
NextTwice ==
    \/ AggregateGoogle \/ AggregateMetaAds \/ AggregateMeta
    \/ LoadHubspotCampaigns \/ ReloadHubspotCampaigns
    \/ ProcessGoogle \/ ProcessMetaAds \/ ProcessMeta
    \/ RunAgain
SpecTwice == InitTwice /\ [][NextTwice]_vars

\* the Google Ads report on the seven daily records of one campaign and week
InitSevenDays ==
    /\ PrefixIdle /\ FuzzyIdle /\ WeekIdle /\ FirstRun /\ SheetIdle /\ FetchIdle /\ DealsIdle
    /\ SevenDaysInit
NextSevenDays == AggregateGoogle \/ LoadHubspotCampaigns \/ ProcessGoogle
SpecSevenDays == InitSevenDays /\ [][NextSevenDays]_vars

InitWeek == PrefixIdle /\ FuzzyIdle /\ WeekInit /\ RunIdle /\ DealsIdle /\ FirstRun /\ SheetIdle /\ FetchIdle
NextWeek == ComputeWeek
SpecWeek == InitWeek /\ [][NextWeek]_vars

Init ==
    /\ PrefixIdle /\ FuzzyIdle /\ WeekIdle /\ FirstRun /\ SheetIdle /\ FetchIdle
    /\ \/ (GoogleInit \/ MetaAdsInit \/ MetaInit) /\ DealsIdle
       \/ DealsInit
Next ==
    \/ AggregateGoogle \/ AggregateMetaAds \/ AggregateMeta
    \/ LoadHubspotCampaigns
    \/ ProcessGoogle \/ ProcessMetaAds \/ ProcessMeta
    \/ NoDeals \/ LoadCampaigns \/ ProcessDeals
Spec == Init /\ [][Next]_vars

\* the write of a finished report to its worksheet
InitSheet ==
    /\ FuzzyIdle /\ WeekIdle /\ FirstRun /\ FetchIdle
    /\ ReportReady \/ DealsReady
    /\ SheetInit
NextSheet == UpdateGoogleSheets
SpecSheet == InitSheet /\ [][NextSheet]_vars

\* one call of fetch_ad_insights_daily
InitFetch ==
    /\ PrefixIdle /\ FuzzyIdle /\ WeekIdle /\ RunIdle /\ DealsIdle /\ FirstRun /\ SheetIdle
    /\ FetchInit
NextFetch == FetchChunk \/ FetchReturn
SpecFetch == InitFetch /\ [][NextFetch]_vars

\* the import of one file into its worksheet
InitImport ==
    /\ PrefixIdle /\ FuzzyIdle /\ WeekIdle /\ FirstRun /\ FetchIdle /\ DealsIdle
    /\ ImportInit
NextImport == WriteToSheet
SpecImport == InitImport /\ [][NextImport]_vars

----------------------------------------------------------------------------
(* Properties of the matchers *)

\* p is a prefix of s, stated position by position
IsPrefixOf(p, s) == Len(p) <= Len(s) /\ \A i \in 1..Len(p) : p[i] = s[i]

PrefixRelated(q, c) == IsPrefixOf(q, c) \/ IsPrefixOf(c, q)

\* the number of leading positions on which a and b agree
CommonPrefix(a, b) ==
    CHOOSE k \in 0..Min(Len(a), Len(b)) :
        /\ \A i \in 1..k : a[i] = b[i]
        /\ (k = Min(Len(a), Len(b)) \/ a[k + 1] # b[k + 1])

SetMax(S) == CHOOSE m \in S : \A x \in S : x <= m

\* C7: for a non-empty query the prefix matcher returns a candidate that
\* stands in the prefix relation (either direction) with the query and that
\* no other such candidate exceeds in length; it returns "" exactly when no
\* candidate stands in the relation; "Summer_Sale" against {"Summer",
\* "Summer_Sale_EU", "Winter"} gives "Summer_Sale_EU".
C7_PrefixMatchLongest ==
    (mpc = "done" /\ campaign_name # EmptyStr) =>
        LET related == { c \in Range(hubspot_campaigns) : PrefixRelated(campaign_name, c) }
        IN  /\ (matched_campaign = EmptyStr) <=> (related = {})
            /\ related # {} =>
                  /\ matched_campaign \in related
                  /\ \A c \in related : Len(c) <= Len(matched_campaign)
            /\ (campaign_name = Summer_Sale
                  /\ Range(hubspot_campaigns) = { Summer, Summer_Sale_EU, Winter })
                => matched_campaign = Summer_Sale_EU

C7_Witness ==
    /\ mpc = "done"
    /\ campaign_name = Summer_Sale
    /\ hubspot_campaigns = << Summer, Summer_Sale_EU, Winter >>
    /\ matched_campaign = Summer_Sale_EU

FuzzyAdmissible(q) ==
    /\ q # EmptyStr
    /\ q # NoValue
    /\ ~ (Len(q) >= 2 /\ q[1] = 123 /\ q[2] = 123)

\* C8: for an admissible query the fuzzy matcher returns a candidate whose
\* common-prefix length with the query is the greatest over the catalog when
\* that greatest length reaches min_prefix_length, and no match when it does
\* not.
C8_FuzzyMatchGreatestPrefix ==
    (fpc = "done" /\ FuzzyAdmissible(utm_campaign)) =>
        LET lens == { CommonPrefix(utm_campaign, c) : c \in Range(campaigns) } \cup { 0 }
            best == SetMax(lens)
        IN  IF best >= min_prefix_length
            THEN /\ best_match \in Range(campaigns)
                 /\ CommonPrefix(utm_campaign, best_match) = best
            ELSE best_match = EmptyStr

\* the spec's example, and a greatest common prefix exactly at the threshold
C8_Witness ==
    /\ fpc = "done"
    /\ utm_campaign = B2B_2025_q1
    /\ campaigns = << B2B_2024_q4, Completely_Different >>
    /\ min_prefix_length = DefaultMinPrefixLength
    /\ best_match = B2B_2024_q4

\* C9: the fuzzy matcher returns no match for the empty query, for
\* "(No value)" and for a query that begins with "{{", also when the catalog
\* holds a candidate identical to the query.
C9_SentinelQueriesNeverMatch ==
    (fpc = "done" /\ ~ FuzzyAdmissible(utm_campaign)) => best_match = EmptyStr

C9_Witness ==
    /\ fpc = "done"
    /\ utm_campaign = TemplateCampaign
    /\ TemplateCampaign \in Range(campaigns)
    /\ NoValue \in Range(campaigns)
    /\ best_match = EmptyStr

\* C10: a query shorter than the threshold never matches, whatever the
\* catalog holds (the query itself included).
C10_ShortQueryNeverMatches ==
    (fpc = "done" /\ Len(utm_campaign) < min_prefix_length) => best_match = EmptyStr

C10_Witness ==
    /\ fpc = "done"
    /\ utm_campaign = Short
    /\ Short \in Range(campaigns)
    /\ min_prefix_length = DefaultMinPrefixLength
    /\ best_match = EmptyStr

\* C12: with an empty catalog each of the two matchers returns no match,
\* whatever the query, and the call completes.
C12_EmptyCatalogNoMatch ==
    /\ (mpc = "done" /\ hubspot_campaigns = << >>) => matched_campaign = EmptyStr
    /\ (fpc = "done" /\ campaigns = << >>) => best_match = EmptyStr
    /\ (mpc = "ready" /\ hubspot_campaigns = << >>) => ENABLED CallFindMatchingHubspotCampaign
    /\ (fpc = "ready" /\ campaigns = << >>) => ENABLED CallFindBestMatch

C12_Witness ==
    /\ mpc = "done"
    /\ hubspot_campaigns = << >>
    /\ campaign_name = Summer_Sale
    /\ matched_campaign = EmptyStr

----------------------------------------------------------------------------
(* Properties of the week arithmetic *)

\* 2025-07-07 is a Monday: a date is a Monday iff it lies a whole number of
\* weeks from it
IsMonday(s) == (strptime(s) - strptime(<<2025, 7, 7>>)) % 7 = 0

\* C2: get_week_start(d) is a Monday with week_start <= d <= week_start + 6
\* days, week_end is week_start + 6 days, and every date of
\* [week_start, week_end] maps to the same week_start.
C2_WeekIsMondayToSunday ==
    wpc = "done" =>
        LET d  == strptime(date_str)
            ws == strptime(week_start)
        IN  /\ strptime_ok(week_start) /\ strptime_ok(week_end)
            /\ IsMonday(week_start)
            /\ ws <= d /\ d <= ws + 6
            /\ strptime(week_end) = ws + 6
            /\ \A k \in 0..6 :
                  /\ strptime(strftime(ws + k)) = ws + k
                  /\ get_week_start(strftime(ws + k)) = week_start

\* a week that spans two years
C2_Witness ==
    /\ wpc = "done"
    /\ date_str = <<2026, 1, 1>>
    /\ week_start = <<2025, 12, 29>>
    /\ week_end = <<2026, 1, 4>>

----------------------------------------------------------------------------
(* Properties of a run *)

Aggregated == pc \in { "aggregated", "loaded", "processed" }

RECURSIVE SumFn(_, _)
SumFn(f, S) ==
    IF S = {} THEN 0
    ELSE LET x == CHOOSE y \in S : TRUE IN f[x] + SumFn(f, S \ {x})

\* what the entries of one type in a list of actions add up to
TypeTotal(actions, type) ==
    SumFn([i \in 1..Len(actions) |-> actions[i].value],
          { i \in 1..Len(actions) : actions[i].action_type = type })

ListTotal(entries) == SumFn([i \in 1..Len(entries) |-> entries[i].value], 1..Len(entries))

\* the entity key of a record
RecordEntity(plat, r) == IF plat = "meta_ads" THEN r.ad_id ELSE r.campaign_name

\* what one daily record adds to the summed fields, and the summed fields of
\* a bucket, in the same order
Contribution(plat, r) ==
    IF plat = "google" THEN << r.cost_micros, r.impressions, r.clicks >>
    ELSE IF plat = "meta_ads" THEN
        << r.impressions, r.reach, r.spend,
           TypeTotal(r.actions, "lead"),
           TypeTotal(r.actions, "landing_page_view"),
           TypeTotal(r.actions, "post_engagement"),
           ListTotal(r.outbound_clicks),
           ListTotal(r.video_p25_watched_actions),
           ListTotal(r.video_p50_watched_actions),
           ListTotal(r.video_p75_watched_actions) >>
    ELSE << r.impressions, r.reach, r.spend,
            TypeTotal(r.actions, "lead"),
            TypeTotal(r.actions, "landing_page_view"),
            TypeTotal(r.actions, "post_engagement"),
            TypeTotal(r.actions, "video_view") >>

BucketSums(plat, b) ==
    IF plat = "google" THEN << b.cost_micros, b.impressions, b.clicks >>
    ELSE IF plat = "meta_ads" THEN
        << b.impressions, b.reach, b.spend, b.leads, b.landing_page_views,
           b.engagement, b.outbound_clicks, b.video_p25, b.video_p50, b.video_p75 >>
    ELSE << b.impressions, b.reach, b.spend, b.leads, b.landing_page_views,
            b.engagement, b.video_views >>

\* the records of daily that carry a date, by index
Dated(plat, daily) == { i \in 1..Len(daily) : DateOf(plat, daily[i]) # EmptyStr }

RecordKey(plat, r) == << RecordEntity(plat, r), get_week_start(DateOf(plat, r)) >>

\* key |-> summed fields, as a set: the order of the buckets does not count
SumsView(plat, weekly) ==
    { << BucketKey(plat, weekly[i]), BucketSums(plat, weekly[i]) >> : i \in 1..Len(weekly) }

Reorderings(daily) ==
    { [i \in 1..Len(daily) |-> daily[p[i]]] : p \in Permutations(1..Len(daily)) }

\* C1: after aggregation there is one bucket per key (entity, week_start)
\* that a dated record has, each summed field of a bucket equals the sum of
\* that field over exactly the records of its key, and every reordering of
\* the input gives the same sums.
C1_BucketSumsAreRecordSums ==
    Aggregated =>
        LET dated == Dated(platform, daily_data)
            keys  == { RecordKey(platform, daily_data[i]) : i \in dated }
        IN  /\ { BucketKey(platform, weekly_data[i]) : i \in 1..Len(weekly_data) } = keys
            /\ Len(weekly_data) = Cardinality(keys)
            /\ \A b \in Range(weekly_data) :
                  LET mine == { i \in dated :
                                  RecordKey(platform, daily_data[i]) = BucketKey(platform, b) }
                      sums == BucketSums(platform, b)
                  IN  \A j \in 1..Len(sums) :
                        sums[j] = SumFn([i \in mine |-> Contribution(platform, daily_data[i])[j]],
                                        mine)
            /\ pc = "aggregated" => \A d \in Reorderings(daily_data) :
                  LET out == AggregateLoop(platform, d, << >>)
                  IN  /\ ~ out.raised
                      /\ SumsView(platform, out.weekly) = SumsView(platform, weekly_data)

\* two records of one campaign on the Monday and the Sunday of one week
C1_Witness ==
    /\ pc = "aggregated"
    /\ platform = "google"
    /\ Len(daily_data) = 2
    /\ daily_data[1].date = <<2025, 7, 7>>
    /\ daily_data[2].date = <<2025, 7, 13>>
    /\ daily_data[1].campaign_name = daily_data[2].campaign_name
    /\ daily_data[1].impressions = 100
    /\ daily_data[2].impressions = 7
    /\ Len(weekly_data) = 1
    /\ weekly_data[1].impressions = 107
    /\ weekly_data[1].clicks = 3

\* a date the aggregator can use
GoodDate(s) == s # EmptyStr /\ strptime_ok(s)

\* C3 (as claimed): with a record whose date is missing or unparseable in
\* the input, the aggregator does not raise, and the buckets are those of
\* the input without that record.
C3_BadDateIsSkipped ==
    (pc # "fetched" /\ \E i \in 1..Len(daily_data) : ~ GoodDate(DateOf(platform, daily_data[i])))
    =>  /\ pc # "raised"
        /\ weekly_data =
             AggregateLoop(platform,
                           SelectSeq(daily_data, LAMBDA r : GoodDate(DateOf(platform, r))),
                           << >>).weekly

\* the bucket a row was built from
RowOfBucket(plat, row, b) ==
    IF plat = "google"
        THEN row[1].s = WeekLabel(b.week_start, b.week_end) /\ row[2].s = b.campaign_name
    ELSE IF plat = "meta_ads"
        THEN row[23].s = PreviewPrefix \o b.ad_id /\ row[24].s = b.week_start
    ELSE row[1].s = b.campaign_name /\ row[14].s = b.week_start

RowBucket(plat, row) == CHOOSE b \in Range(weekly_data) : RowOfBucket(plat, row, b)

\* the ratio cells of a row: << column, denominator accumulator >>
RatioCells(plat, b) ==
    IF plat = "google"
        THEN { << 6, b.impressions >>, << 8, b.impressions >>, << 9, b.clicks >> }
    ELSE IF plat = "meta_ads"
        THEN { << 6, b.reach >>, << 10, b.leads >>, << 11, b.landing_page_views >>,
               << 12, b.impressions >>, << 14, b.impressions >>,
               << 15, b.outbound_clicks >>, << 16, b.impressions >>,
               << 17, b.impressions >>, << 18, b.video_p25 >>, << 19, b.video_p25 >>,
               << 22, b.leads >> }
    ELSE { << 5, b.reach >>, << 8, b.impressions >>, << 9, b.impressions >>,
           << 10, b.impressions >>, << 13, b.leads >> }

\* C4 (as claimed): in every emitted row of every report, a ratio cell whose
\* denominator accumulator is zero is the empty cell.
C4_ZeroDenominatorIsEmpty ==
    pc = "processed" =>
        \A r \in 1..Len(rows) :
            \A cell \in RatioCells(platform, RowBucket(platform, rows[r])) :
                cell[2] = 0 => rows[r][cell[1]] = Empty

\* C5: in the Google Ads report the Avg. CPC cell of a row is empty when the
\* bucket has no clicks, and is cost / clicks (in cents, the nearest whole
\* number of cents) when it has clicks.
C5_GoogleCpcEmptyWithoutClicks ==
    (pc = "processed" /\ platform = "google") =>
        \A r \in 1..Len(rows) :
            LET b == RowBucket(platform, rows[r])
                cell == rows[r][9]
                \* cents * clicks against cost, both in micros
                gap == cell.n * b.clicks * 10000 - b.cost_micros
            IN  /\ b.impressions # 0
                /\ b.clicks = 0 => cell = Empty
                /\ b.clicks > 0 =>
                      /\ cell.kind = "num"
                      /\ 2 * gap <= b.clicks * 10000
                      /\ 2 * gap >= - (b.clicks * 10000)

\* one row without clicks and one with 3 clicks for 1.00: 0.33
C5_Witness ==
    /\ pc = "processed"
    /\ platform = "google"
    /\ \E i, j \in 1..Len(rows) :
          /\ rows[i][7] = Num(0) /\ rows[i][5].n > 0 /\ rows[i][9] = Empty
          /\ rows[j][7] = Num(3) /\ rows[j][4] = Num(100) /\ rows[j][9] = Num(33)

ImpressionsColumn(plat) ==
    IF plat = "google" THEN 5 ELSE IF plat = "meta_ads" THEN 4 ELSE 3

\* C6: a bucket gives a row iff its summed impressions are not zero: no row
\* shows 0 impressions, and each bucket with impressions gives exactly one row.
C6_RowIffImpressions ==
    pc = "processed" =>
        LET shown == { i \in 1..Len(weekly_data) : weekly_data[i].impressions # 0 }
        IN  /\ Len(rows) = Cardinality(shown)
            /\ \A r \in 1..Len(rows) :
                  /\ rows[r][ImpressionsColumn(platform)].kind = "num"
                  /\ rows[r][ImpressionsColumn(platform)].n # 0
                  /\ \E i \in shown : RowOfBucket(platform, rows[r], weekly_data[i])
            /\ \A i \in 1..Len(weekly_data) :
                  Cardinality({ r \in 1..Len(rows) :
                                  RowOfBucket(platform, rows[r], weekly_data[i]) })
                    = IF i \in shown THEN 1 ELSE 0

\* two buckets, one of them without impressions
C6_Witness ==
    /\ pc = "processed"
    /\ Len(weekly_data) = 2
    /\ weekly_data[1].impressions = 0
    /\ weekly_data[2].impressions > 0
    /\ Len(rows) = 1

----------------------------------------------------------------------------
(* Properties of the deals report *)

\* the column of the UTM campaign (H) and of the matched campaign (Q)
UtmColumn == CHOOSE i \in 1..Len(COLUMN_MAPPING) :
                COLUMN_MAPPING[i][1] = "conversion_touch__utm_campaign"
MatchedColumn == Len(COLUMN_MAPPING) + 1

\* C11: in every row of process_deals, with m and g the fuzzy-match results of
\* the row's UTM campaign against the Meta and the Google catalog: the matched
\* campaign is the longer of m and g when both are non-empty and of different
\* lengths, it is the non-empty one when exactly one is non-empty, and it is
\* empty iff both are empty.
C11_DualCatalogPicksLonger ==
    pc = "deals_processed" =>
        \A r \in 1..Len(rows) :
            LET utm == rows[r][UtmColumn].s
                m   == find_best_match(utm, meta_campaigns, DefaultMinPrefixLength)
                g   == find_best_match(utm, google_campaigns, DefaultMinPrefixLength)
                c   == rows[r][MatchedColumn].s
            IN  /\ (m # EmptyStr /\ g # EmptyStr /\ Len(m) # Len(g)) =>
                      /\ c \in { m, g }
                      /\ Len(c) > Len(m) \/ Len(c) > Len(g)
                /\ (m # EmptyStr /\ g = EmptyStr) => c = m
                /\ (m = EmptyStr /\ g # EmptyStr) => c = g
                /\ (c = EmptyStr) <=> (m = EmptyStr /\ g = EmptyStr)

\* the Google catalog gives the longer match
C11_Witness ==
    /\ pc = "deals_processed"
    /\ meta_campaigns = << B2B_brand >>
    /\ google_campaigns = << B2B_2024_q4 >>
    /\ \E r \in 1..Len(rows) :
          /\ rows[r][UtmColumn].s = B2B_2025_q1
          /\ rows[r][MatchedColumn].s = B2B_2024_q4

----------------------------------------------------------------------------
(* Properties of the rows' order *)

\* a comes strictly before b in the order of str: a is a proper prefix of b,
\* or a is smaller at the first position where they differ
StrBefore(a, b) ==
    \E i \in 1..(Len(a) + 1) :
        /\ i <= Len(b)
        /\ \A j \in 1..(i - 1) : a[j] = b[j]
        /\ (i = Len(a) + 1 \/ a[i] < b[i])

\* k1 <= k2 for tuples of str of one length
TupleLeq(k1, k2) ==
    \/ k1 = k2
    \/ \E i \in 1..Len(k1) :
          /\ \A j \in 1..(i - 1) : k1[j] = k2[j]
          /\ StrBefore(k1[i], k2[i])

\* entity label, secondary label where the report has one, week
EntityFirstKey(plat, row) ==
    IF plat = "google" THEN << row[2].s, row[1].s >>
    ELSE IF plat = "meta_ads" THEN << row[1].s, row[3].s, row[2].s >>
    ELSE << row[1].s, row[2].s >>

\* the key each report sorts by: the Google Ads report by week, then campaign
ReportKey(plat, row) ==
    IF plat = "google" THEN << row[1].s, row[2].s >>
    ELSE EntityFirstKey(plat, row)

\* C14 (as claimed): the rows of every weekly report are in ascending order of
\* (entity label, secondary label, week start).
C14_SortedEntityFirst ==
    pc = "processed" =>
        \A i \in 1..(Len(rows) - 1) :
            TupleLeq(EntityFirstKey(platform, rows[i]), EntityFirstKey(platform, rows[i + 1]))

\* C14 (amended): the rows of the two Meta reports are in ascending order of
\* (campaign name, ad name where present, week); the rows of the Google Ads
\* report are in ascending order of (week, campaign name).
C14_SortedByReportKey ==
    pc = "processed" =>
        \A i \in 1..(Len(rows) - 1) :
            TupleLeq(ReportKey(platform, rows[i]), ReportKey(platform, rows[i + 1]))

\* a Google Ads run whose earlier week belongs to the later campaign name
C14_Witness ==
    /\ pc = "processed"
    /\ platform = "google"
    /\ Len(rows) = 2
    /\ rows[1][2].s = Winter
    /\ rows[2][2].s = Summer
    /\ StrBefore(rows[1][1].s, rows[2][1].s)

----------------------------------------------------------------------------
(* Matching inside a run *)

\* the column of the campaign name a weekly report matches on
NameColumn(plat) == IF plat = "google" THEN 2 ELSE 1

RowsOf(plat, weekly, hs) ==
    IF plat = "google" THEN google_process_weekly_data(weekly, hs)
    ELSE IF plat = "meta_ads" THEN process_weekly_ad_data(weekly, hs)
    ELSE meta_process_weekly_data(weekly, hs)

\* every matched cell is what the matcher gives on the whole catalog, at any
\* position of the row, and giving the buckets (the deals) in another order
\* gives the same rows
MatchesIgnoreRowOrder ==
    /\ pc = "processed" =>
          /\ \A r \in 1..Len(rows) :
                rows[r][Len(rows[r])].s =
                    find_matching_hubspot_campaign(rows[r][NameColumn(platform)].s,
                                                   hubspot_campaigns)
          /\ \A w \in Reorderings(weekly_data) :
                Range(RowsOf(platform, w, hubspot_campaigns)) = Range(rows)
    /\ pc = "deals_processed" =>
          \A d \in Reorderings(deals) :
              Range(process_deals(d, meta_campaigns, google_campaigns)) = Range(rows)

\* the steps in which the matchers are called leave the catalogs, and all but
\* the rows and the position of the run, as they were
MatchingStepKeepsCatalogs ==
    /\ pc = "loaded" =>
          /\ hubspot_campaigns' = hubspot_campaigns
          /\ UNCHANGED <<platform, daily_data, weekly_data, dealVars>>
    /\ pc = "campaigns_loaded" =>
          /\ meta_campaigns' = meta_campaigns
          /\ google_campaigns' = google_campaigns
          /\ UNCHANGED <<platform, deals, hubspot_campaigns>>

\* C13: the matching calls of a run leave the catalog as it was loaded (same
\* elements, same order) and change nothing but the rows being built, and the
\* match of each row is the same whatever the order in which the rows are
\* matched.
C13_MatchingIsPure ==
    [] MatchesIgnoreRowOrder /\ [][MatchingStepKeepsCatalogs]_vars

\* two rows of one run match the same catalog entry
C13_Witness ==
    /\ pc = "processed"
    /\ Len(rows) = 2
    /\ hubspot_campaigns = << Summer_Sale_EU, Summer >>
    /\ rows[1][Len(rows[1])].s = Summer_Sale_EU
    /\ rows[2][Len(rows[2])].s = Summer_Sale_EU

----------------------------------------------------------------------------
(* Running a report twice *)

----------------------------------------------------------------------------
(* Shape of the rows *)

\* C16: every row a row builder returns (the three weekly reports and the
\* deals report) has as many cells as the headers list returned with it.
C16_RowWidthIsHeaderWidth ==
    pc \in { "processed", "deals_processed" } =>
        \A r \in 1..Len(rows) : Len(rows[r]) = Len(HeadersOf(platform))

\* two deals, one of them without any property
C16_Witness ==
    /\ pc = "deals_processed"
    /\ Len(rows) = 2
    /\ \E i \in 1..2 : \A p \in PropNames : deals[i].properties[p].kind # "str"
    /\ Len(rows[1]) = Len(DealHeaders)

----------------------------------------------------------------------------
(* Averaged shares of the Google Ads report *)

\* the dated records of a row's bucket, by index in daily_data
GoogleRowRecords(row) ==
    { i \in 1..Len(daily_data) :
        /\ GoodDate(daily_data[i].date)
        /\ daily_data[i].campaign_name = row[2].s
        /\ WeekLabel(get_week_start(daily_data[i].date),
                     week_end_of(get_week_start(daily_data[i].date))) = row[1].s }

\* the cell of a share averaged over the records of idx that report a
\* strictly positive value in shares (index -> value)
AveragedShareCell(shares, idx) ==
    LET positive == { i \in idx : shares[i] # NoShare /\ shares[i] > 0 }
    IN  IF positive = {} THEN Empty
        ELSE Num(RoundHalfEven(SumFn(shares, positive), Cardinality(positive)))

\* C17: in every row of the Google Ads report the search impression share cell
\* (column J) and the click share cell (column K) are the sum of the strictly
\* positive daily values of the bucket's records divided by the number of
\* records that report one, rounded to four decimals; records with 0 or with
\* no value count in neither; the cell is empty when no record reports a
\* strictly positive value.
C17_SharesAveragedOverPositive ==
    (pc = "processed" /\ platform = "google") =>
        \A r \in 1..Len(rows) :
            LET idx == GoogleRowRecords(rows[r])
                sis == [i \in 1..Len(daily_data) |-> daily_data[i].search_impression_share]
                scs == [i \in 1..Len(daily_data) |-> daily_data[i].search_click_share]
            IN  /\ rows[r][10] = AveragedShareCell(sis, idx)
                /\ rows[r][11] = AveragedShareCell(scs, idx)

\* a week with one record reporting shares and one reporting 0 and no value
C17_Witness ==
    /\ pc = "processed"
    /\ platform = "google"
    /\ Len(daily_data) = 2
    /\ daily_data[1].search_impression_share = 0
    /\ daily_data[1].search_click_share = NoShare
    /\ daily_data[2].search_impression_share > 0
    /\ Len(rows) = 1
    /\ rows[1][10] = Num(daily_data[2].search_impression_share)
    /\ rows[1][11] = Num(daily_data[2].search_click_share)

----------------------------------------------------------------------------
(* Action entries with a label the aggregators do not track *)

\* the labels the if/elif chain of a Meta aggregator has a branch for
TrackedLabels(plat) ==
    IF plat = "meta_ads" THEN { "lead", "landing_page_view", "post_engagement" }
    ELSE { "lead", "landing_page_view", "post_engagement", "video_view" }

\* the records of daily without their action entries of an untracked label
WithoutUntracked(plat, daily) ==
    [i \in 1..Len(daily) |->
        [daily[i] EXCEPT !.actions =
            SelectSeq(@, LAMBDA a : a.action_type \in TrackedLabels(plat))]]

\* C18 (as claimed): an action entry with an untracked label changes no
\* accumulator of any bucket: the two Meta aggregators give the same buckets
\* for the records as fetched and for the records without such entries.
C18_UntrackedActionsIgnored ==
    (Aggregated /\ platform \in { "meta_ads", "meta" }) =>
        AggregateLoop(platform, WithoutUntracked(platform, daily_data), << >>).weekly
            = weekly_data

----------------------------------------------------------------------------
(* One campaign, the seven days of one week *)

\* the Monday among the dates of the records
EarliestDate(daily) ==
    CHOOSE d \in { daily[i].date : i \in 1..Len(daily) } :
        \A i \in 1..Len(daily) : strptime(d) <= strptime(daily[i].date)

\* C19: seven daily records of one campaign dated Monday to Sunday of one
\* week, in any order, give one bucket and one row; the row's impressions and
\* clicks are the seven-day sums, its CTR is clicks / impressions and its Week
\* cell is "<Monday> - <Sunday>"; impressions [100,0,0,0,0,0,0] and clicks
\* [5,0,0,0,0,0,0] for 2025-07-07..2025-07-13 give 100, 5, 0.05 and
\* "2025-07-07 - 2025-07-13".
C19_SevenDaysOneRow ==
    LET days        == 1..Len(daily_data)
        impressions == SumFn([i \in days |-> daily_data[i].impressions], days)
        clicks      == SumFn([i \in days |-> daily_data[i].clicks], days)
        monday      == EarliestDate(daily_data)
        sunday      == strftime(strptime(monday) + 6)
    IN  /\ pc \in { "aggregated", "loaded", "processed" } => Len(weekly_data) = 1
        /\ pc = "processed" =>
              /\ Len(rows) = 1
              /\ rows[1][1] = Str(monday \o <<32, 45, 32>> \o sunday)
              /\ rows[1][2] = Str(CampaignX)
              /\ rows[1][5] = Num(impressions)
              /\ rows[1][7] = Num(clicks)
              /\ rows[1][8].kind = "num"
              /\ 2 * (rows[1][8].n * impressions - 10000 * clicks) <= impressions
              /\ 2 * (10000 * clicks - rows[1][8].n * impressions) <= impressions
              /\ (monday = <<2025, 7, 7>> /\ impressions = 100 /\ clicks = 5) =>
                    /\ rows[1][1] = Str(<<2025, 7, 7, 32, 45, 32, 2025, 7, 13>>)
                    /\ rows[1][8] = Num(500)
        /\ pc # "raised"

\* the scenario of the specification, with the Monday's record fetched last
C19_Witness ==
    /\ pc = "processed"
    /\ daily_data[7].date = <<2025, 7, 7>>
    /\ daily_data[7].impressions = 100
    /\ daily_data[1].date = <<2025, 7, 13>>
    /\ rows = << GoogleRow(weekly_data[1], hubspot_campaigns) >>
    /\ rows[1][5] = Num(100)
    /\ rows[1][7] = Num(5)
    /\ rows[1][8] = Num(500)

----------------------------------------------------------------------------
(* Hook Rate of the Meta reports *)

HookRateColumn(plat) == IF plat = "meta_ads" THEN 17 ELSE 10

\* the 25%-watched video count a daily record carries
WatchedP25(r) ==
    IF "video_p25_watched_actions" \in DOMAIN r
    THEN ListTotal(r.video_p25_watched_actions)
    ELSE 0

\* C20 (as claimed): in every row of the two Meta reports the Hook Rate cell is
\* the 25%-watched video count summed over the records of the row's bucket,
\* divided by the bucket's impressions (to four decimals).
C20_HookRateIsP25OverImpressions ==
    (pc = "processed" /\ platform \in { "meta_ads", "meta" }) =>
        \A r \in 1..Len(rows) :
            LET b    == RowBucket(platform, rows[r])
                recs == { i \in Dated(platform, daily_data) :
                            RecordKey(platform, daily_data[i]) = BucketKey(platform, b) }
                p25  == SumFn([i \in 1..Len(daily_data) |-> WatchedP25(daily_data[i])], recs)
            IN  rows[r][HookRateColumn(platform)]
                    = Num(RoundHalfEven(p25 * 10000, b.impressions))

----------------------------------------------------------------------------
(* Writing a report to its worksheet *)

\* the value at a position of a worksheet, "" where the position is empty
CellAt(ws, p) == IF p \in DOMAIN ws.cells THEN ws.cells[p] ELSE Blank

\* C21: whatever the worksheet held and whatever table was produced, after
\* update_google_sheets (returned or raised) every cell in a column beyond the
\* last header column holds the value it held before the call.
C21_ColumnsBeyondHeadersKept ==
    pc \in { "updated", "update_raised" } =>
        \A p \in DOMAIN sheet_before.cells \cup DOMAIN worksheet.cells :
            p[2] > Len(HeadersOf(platform)) =>
                CellAt(worksheet, p) = CellAt(sheet_before, p)

\* a table of two rows written over a worksheet that held earlier values and,
\* to the right of the header range, formulas
C21_Witness ==
    /\ pc = "updated"
    /\ Len(rows) = 2
    /\ sheet_before.exists
    /\ \E p \in DOMAIN sheet_before.cells :
          p[2] > Len(HeadersOf(platform)) /\ sheet_before.cells[p] = Formula
    /\ CellAt(sheet_before, <<1, 1>>) = OldValue
    /\ CellAt(worksheet, <<1, 1>>) = HeaderCell(HeadersOf(platform)[1])
    /\ CellAt(worksheet, <<3, 1>>) = SheetCell(rows[2][1])

----------------------------------------------------------------------------
(* No records *)

\* C22: on zero daily records an aggregate function returns without raising
\* and with no bucket, and the row builder then returns no row.
C22_NoRecordsNoBucketsNoRows ==
    (platform \in { "google", "meta_ads", "meta" } /\ daily_data = << >>) =>
        /\ pc # "raised"
        /\ pc \in { "aggregated", "loaded", "processed" } => weekly_data = << >>
        /\ pc = "processed" => rows = << >>

\* the Google Ads report run to its end on no record, with a catalog loaded
C22_Witness ==
    /\ platform = "google"
    /\ daily_data = << >>
    /\ hubspot_campaigns # << >>
    /\ pc = "processed"
    /\ rows = << >>

----------------------------------------------------------------------------
(* Importing a file into its worksheet *)

\* the positions that hold a value before or after the write
Touched == DOMAIN sheet_before.cells \cup DOMAIN worksheet.cells

\* row 1 is as before, and so is every column after max_col
HeaderAndOutsideKept ==
    \A p \in Touched :
        (p[1] = 1 \/ p[2] > col_letter_to_num(max_col)) =>
            CellAt(worksheet, p) = CellAt(sheet_before, p)

\* the value of the data at a position of rows 2..n+1, "" where it has none
DataAt(i, j) == IF j <= Len(data[i]) THEN data[i][j] ELSE Blank

\* C23 as stated: after a successful write_to_sheet of n >= 1 rows, row 1 and
\* the columns after max_col are unchanged, rows 2..n+1 of A..max_col hold
\* exactly the data, and every later row is empty in A..max_col.
C23_WriteReplacesDataBlock ==
    pc = "written" =>
        /\ HeaderAndOutsideKept
        /\ \A i \in 1..Len(data) : \A j \in 1..col_letter_to_num(max_col) :
               CellAt(worksheet, <<i + 1, j>>) = DataAt(i, j)
        /\ \A p \in DOMAIN sheet_before.cells :
               (p[1] > Len(data) + 1 /\ p[2] <= col_letter_to_num(max_col)) =>
                   CellAt(worksheet, p) = Blank

\* C23, amended: after a successful write_to_sheet of n >= 1 rows, row 1 and
\* the columns after max_col are unchanged; in rows 2..n+1 the columns the
\* data has hold the data and the remaining columns up to max_col keep their
\* values; the rows after n+1 are empty in A..max_col up to row 10000, and
\* unchanged after row 10000.
C23_WriteReplacesUpToLimit ==
    pc = "written" =>
        /\ HeaderAndOutsideKept
        /\ \A i \in 1..Len(data) : \A j \in 1..col_letter_to_num(max_col) :
               CellAt(worksheet, <<i + 1, j>>) =
                   IF j <= Len(data[i]) THEN data[i][j]
                   ELSE CellAt(sheet_before, <<i + 1, j>>)
        /\ \A p \in Touched :
               (p[1] > Len(data) + 1 /\ p[2] <= col_letter_to_num(max_col)) =>
                   CellAt(worksheet, p) =
                       IF p[1] <= ClearLimit THEN Blank ELSE CellAt(sheet_before, p)

\* one row written into a worksheet of more than 10000 rows that held values
\* in its last rows and in rows 2 and 3
C23_Witness ==
    /\ pc = "written"
    /\ Len(data) = 1
    /\ sheet_before.row_count > ClearLimit
    /\ CellAt(sheet_before, <<sheet_before.row_count, 1>>) = OldValue
    /\ CellAt(sheet_before, <<2, 1>>) = OldValue
    /\ CellAt(worksheet, <<2, 1>>) = Blank
    /\ CellAt(worksheet, <<2, 2>>) = NewValue

----------------------------------------------------------------------------
(* Ties between candidates *)

\* the positions of the catalog whose candidate is prefix-related to the query
RelatedAt == { i \in 1..Len(hubspot_campaigns) :
                 PrefixRelated(campaign_name, hubspot_campaigns[i]) }

\* the positions of the catalog with the greatest common prefix with the query
GreatestAt ==
    { i \in 1..Len(campaigns) :
        \A j \in 1..Len(campaigns) :
            CommonPrefix(utm_campaign, campaigns[j]) <= CommonPrefix(utm_campaign, campaigns[i]) }

\* C24: on a given query and catalog sequence the prefix matcher returns the
\* earliest of the related candidates of greatest length, and the fuzzy
\* matcher, when it returns a match, the earliest of the candidates of greatest
\* common-prefix length.
C24_TiesGoToEarliest ==
    /\ (mpc = "done" /\ campaign_name # EmptyStr /\ RelatedAt # {}) =>
          LET longest == { i \in RelatedAt : \A j \in RelatedAt :
                             Len(hubspot_campaigns[j]) <= Len(hubspot_campaigns[i]) }
          IN  \E i \in longest :
                 /\ matched_campaign = hubspot_campaigns[i]
                 /\ \A j \in longest : i <= j
    /\ (fpc = "done" /\ best_match # EmptyStr) =>
          \E i \in GreatestAt :
             /\ best_match = campaigns[i]
             /\ \A j \in GreatestAt : i <= j

\* two related candidates of the same, greatest length, the later one first in
\* the alphabet
C24_Witness ==
    /\ mpc = "done"
    /\ campaign_name = Summer_Sale
    /\ hubspot_campaigns = << Summer, Summer_Sale_IT, Summer_Sale_EU >>
    /\ matched_campaign = Summer_Sale_IT

----------------------------------------------------------------------------
(* The date ranges of the chunked fetch *)

\* C25: when fetch_ad_insights_daily returns, the ranges it requested are, in
\* request order, non-empty, contiguous and disjoint, each at most one month
\* long, the first starting on since and the last ending on until, so that
\* every day from since to until is requested exactly once.
C25_ChunksCoverRange ==
    fetch_pc = "returned" =>
        /\ requested # << >>
        /\ requested[1][1] = since
        /\ requested[Len(requested)][2] = until
        /\ \A i \in 1..Len(requested) :
               /\ strptime(requested[i][1]) <= strptime(requested[i][2])
               /\ strptime(requested[i][2]) < add_month(strptime(requested[i][1]))
        /\ \A i \in 1..(Len(requested) - 1) :
               strptime(requested[i + 1][1]) = strptime(requested[i][2]) + 1

----------------------------------------------------------------------------
(* Rows and the order of the records *)

\* C26: the daily records given in any other order, aggregated and built into
\* rows with the same catalog, give the same row sequence: the same cells, label
\* and currency cells included, in the same order.
C26_RowsIgnoreRecordOrder ==
    pc = "processed" =>
        \A d \in Reorderings(daily_data) :
            RowsOf(platform, AggregateLoop(platform, d, << >>).weekly, hubspot_campaigns) = rows

----------------------------------------------------------------------------
(* Cost per Lead *)

\* the Cost per Lead and Cost per result columns of a Meta report
CostPerLeadColumns(plat) == IF plat = "meta_ads" THEN { 10, 22 } ELSE { 13 }

\* C27: in every row of the two Meta reports the Cost per Lead cell (and the
\* Cost per result cell) is empty exactly when the bucket has no lead, and with
\* leads it is the number spend / leads (to the nearest cent), also when the
\* spend is 0.
C27_CostPerLeadEmptyIffNoLeads ==
    (pc = "processed" /\ platform \in { "meta_ads", "meta" }) =>
        \A r \in 1..Len(rows) :
            LET b == RowBucket(platform, rows[r])
            IN  \A c \in CostPerLeadColumns(platform) :
                   LET cell == rows[r][c]
                       gap  == cell.n * b.leads - b.spend
                   IN  /\ (cell = Empty) <=> (b.leads = 0)
                       /\ b.leads > 0 =>
                             /\ cell.kind = "num"
                             /\ 2 * gap <= b.leads
                             /\ 2 * gap >= - b.leads

----------------------------------------------------------------------------
(* The names of an ad-level row *)

\* C28: in the ad-level Meta report every daily record summed into a row has
\* the campaign name and the ad name shown in that row's Campaign name and Ad
\* name cells.
C28_RowNamesAreRecordNames ==
    (pc = "processed" /\ platform = "meta_ads") =>
        \A r \in 1..Len(rows) :
            LET b == RowBucket(platform, rows[r])
            IN  \A i \in Dated(platform, daily_data) :
                   RecordKey(platform, daily_data[i]) = BucketKey(platform, b) =>
                       /\ daily_data[i].campaign_name = rows[r][1].s
                       /\ daily_data[i].ad_name = rows[r][3].s

----------------------------------------------------------------------------
(* What a matcher may return *)

\* C29: a non-empty result of a matcher is an element of the catalog it was
\* given; a non-empty prefix match is a prefix of the query or has the query
\* as a prefix; a non-empty fuzzy match, and a non-empty matched campaign of a
\* deal, agrees with the query on at least the threshold number of leading
\* characters.
C29_ResultComesFromCatalog ==
    /\ (mpc = "done" /\ matched_campaign # EmptyStr) =>
          /\ matched_campaign \in Range(hubspot_campaigns)
          /\ PrefixRelated(campaign_name, matched_campaign)
    /\ (fpc = "done" /\ best_match # EmptyStr) =>
          /\ best_match \in Range(campaigns)
          /\ CommonPrefix(utm_campaign, best_match) >= min_prefix_length
    /\ pc = "deals_processed" =>
          \A r \in 1..Len(rows) :
              LET utm == rows[r][UtmColumn].s
                  c   == rows[r][MatchedColumn].s
              IN  c # EmptyStr =>
                     /\ c \in Range(meta_campaigns) \cup Range(google_campaigns)
                     /\ CommonPrefix(utm, c) >= DefaultMinPrefixLength

\* a deal matched in a catalog of two names, next to a deal without a match
C29_Witness ==
    /\ pc = "deals_processed"
    /\ Len(rows) = 2
    /\ meta_campaigns = << Summer_Sale_EU, B2B_2025_q1 >>
    /\ \E r \in 1..2 : /\ rows[r][UtmColumn].s = Summer_Sale
                         /\ rows[r][MatchedColumn].s = Summer_Sale_EU
    /\ \E r \in 1..2 : rows[r][MatchedColumn].s = EmptyStr

----------------------------------------------------------------------------
(* The dual-catalog choice against one match over both catalogs *)

\* the fuzzy match of a UTM campaign over the two catalogs taken as one
UnionMatch(utm) ==
    find_best_match(utm, meta_campaigns \o google_campaigns, DefaultMinPrefixLength)

\* C30 as stated: the matched campaign of every row of process_deals has the
\* common-prefix length with the UTM campaign of one fuzzy match run over the
\* union of the two catalogs, the greatest over all candidates.
C30_DualMatchIsUnionMatch ==
    pc = "deals_processed" =>
        \A r \in 1..Len(rows) :
            LET utm == rows[r][UtmColumn].s
                c   == rows[r][MatchedColumn].s
            IN  CommonPrefix(utm, c) = CommonPrefix(utm, UnionMatch(utm))

\* C30, amended: the matched campaign of a row is the fuzzy match of one of
\* the two catalogs, with a common-prefix length at least that of every
\* candidate of that catalog, and it is no shorter a name than the match of
\* the other catalog; it has the common-prefix length of a match over the union
\* when at most one catalog gives a match, and is empty exactly when the match
\* over the union is.
C30_DualMatchIsLongerOfTwo ==
    pc = "deals_processed" =>
        \A r \in 1..Len(rows) :
            LET utm == rows[r][UtmColumn].s
                c   == rows[r][MatchedColumn].s
                m   == find_matching_meta_campaign(utm, meta_campaigns)
                g   == find_matching_google_campaign(utm, google_campaigns)
            IN  /\ (c = EmptyStr) <=> (UnionMatch(utm) = EmptyStr)
                /\ c # EmptyStr =>
                      /\ \E cat \in { meta_campaigns, google_campaigns } :
                            /\ c \in Range(cat)
                            /\ \A cand \in Range(cat) :
                                  CommonPrefix(utm, cand) <= CommonPrefix(utm, c)
                      /\ Len(c) >= Len(m) /\ Len(c) >= Len(g)
                      /\ (m = EmptyStr \/ g = EmptyStr) =>
                            CommonPrefix(utm, c) = CommonPrefix(utm, UnionMatch(utm))

\* two matches of one length: the Meta one is kept, the Google one is the UTM
\* campaign itself
C30_Witness ==
    /\ pc = "deals_processed"
    /\ meta_campaigns = << B2B_2024_q4 >>
    /\ google_campaigns = << Summer_Sale_EU, B2B_2025_q1 >>
    /\ \E r \in 1..Len(rows) :
          /\ rows[r][UtmColumn].s = B2B_2025_q1
          /\ rows[r][MatchedColumn].s = B2B_2024_q4

====
